---- MODULE Spec2Model ----
(***************************************************************************)
(* Domain event infrastructure of backend/app/domain/common/events.py:     *)
(* InMemoryEventStore, RetryPolicy, InMemoryEventBus (publish,             *)
(* _process_with_retry, publish_batch, subscribe, unsubscribe) and         *)
(* transaction_context, run by asyncio tasks on one event loop.            *)
(*                                                                         *)
(* Scheduling is cooperative: `running` is the task the event loop is      *)
(* executing; a task gives the loop up only where the code awaits          *)
(* something that suspends (handler.handle, asyncio.sleep, a held lock,    *)
(* the caller's own awaits inside a transaction block) or when it ends.    *)
(***************************************************************************)
EXTENDS Integers, Sequences, FiniteSets, TLC

\* ------------------------------------------------------------------ bounds
NumTasks == 2          \* concurrent asyncio tasks calling into the bus
MaxBatch == 2          \* longest list given to publish_batch / collected by a transaction
MaxRetriesBound == 3   \* largest max_retries a bus retry policy is configured with
MaxRetryCount == 4     \* largest retry_count of an event a caller calls with_retry on
MaxAttempt == 10       \* largest small attempt passed to should_retry and get_delay
MaxAggregateEvents == 3  \* events appended to a store queried by aggregate
MaxStored == 5         \* events appended to a store queried by type
MaxPublished == 2      \* events published to a store queried by correlation id
MaxBuses == 3          \* buses constructed in a run of the singleton accessors
MaxNesting == 1        \* publish calls made by handlers below one another on a task's stack

\* ------------------------------------------------------------ value domains
Tasks == 1..NumTasks
NoTask == 0
Handlers == {"h1", "h2", "h3"}
\* event classes; the name is what subscribe registers and what event_type defaults to
EventTypes == {"ProjectCreated", "UserRegistered"}
\* the classes callers pass to subscribe and unsubscribe; UserRegistered is
\* registered only through a handler's supported_events
SubscribedTypes == {"ProjectCreated"}
Versions == {0, 1}
AggregateIds == {"a1", "a2"}
ExcTypes == {"ValueError", "KeyError"}   \* both subclasses of Exception
\* the exception classes a retry allow-list may name; KeyError is a subclass of
\* LookupError
AllowTypes == {"ValueError", "KeyError", "LookupError"}
\* 2.0 ** 1024 is the least power of two out of the range of a float
FloatMaxExp == 1024
NoExc == "None"

\* EventPriority (enum values)
LOW == 0
NORMAL == 1
HIGH == 2
CRITICAL == 3

\* EventStatus
CREATED == "created"
PUBLISHED == "published"
PROCESSED == "processed"
FAILED == "failed"
RETRYING == "retrying"

\* Python's None, as the value of an optional field
None == "None"

\* EventHandler.priority of the handlers subscribed in this development
priority(h) == CASE h = "h1" -> LOW
                 [] h = "h2" -> CRITICAL
                 [] OTHER    -> NORMAL

\* the exception type a handler's handle() raises when it fails
raised_by(h) == IF h = "h2" THEN "KeyError" ELSE "ValueError"

\* EventHandler.supported_events of the handlers
supported_events(h) == IF h = "h3" THEN {"UserRegistered"} ELSE {}

\* EventHandler.retry_on_exceptions of the handlers: h1 lists KeyError only (and
\* raises ValueError), the others keep the default empty list
handler_retry_on_exceptions(h) == IF h = "h1" THEN {"KeyError"} ELSE {}

\* the aggregate class an event class is about
AggregateTypeOf(type) == IF type = "ProjectCreated" THEN "Project" ELSE "User"

\* default of DomainEvent.max_retries
DefaultEventMaxRetries == 3

\* the time utcnow() gives when an event is constructed without occurred_on
Now == 1

\* the defaults of the optional fields of DomainEvent
EventDefaults ==
    [version |-> 1, occurred_on |-> Now, causation_id |-> None, correlation_id |-> None,
     priority |-> NORMAL, status |-> CREATED, retry_count |-> 0,
     max_retries |-> DefaultEventMaxRetries]

\* DomainEvent.set_correlation_chain (model validator, mode="before"): values
\* is the dict of the keyword arguments of the constructor
set_correlation_chain(values) ==
    IF /\ "causation_id" \in DOMAIN values
       /\ values["causation_id"] \notin {None, ""}    \* truthy
       /\ "correlation_id" \notin DOMAIN values
    THEN [f \in DOMAIN values \cup {"correlation_id"} |->
             IF f = "correlation_id" THEN values["causation_id"] ELSE values[f]]
    ELSE values

\* DomainEvent(**values): the before-validator runs on the arguments, then the
\* fields that were not given take their defaults
Construct(values) ==
    LET v == set_correlation_chain(values)
        field(f) == IF f \in DOMAIN v THEN v[f] ELSE EventDefaults[f]
    IN [event_id |-> v.event_id, event_type |-> v.event_type,
        aggregate_id |-> v.aggregate_id, aggregate_type |-> v.aggregate_type,
        version |-> field("version"), occurred_on |-> field("occurred_on"),
        causation_id |-> field("causation_id"),
        correlation_id |-> field("correlation_id"),
        priority |-> field("priority"), status |-> field("status"),
        retry_count |-> field("retry_count"), max_retries |-> field("max_retries")]

\* DomainEvent.set_event_type (field validator, mode="before") of class cls,
\* run on the event_type argument: `v or cls.__name__`
set_event_type(cls, v) == IF v \in {None, ""} THEN cls ELSE v

\* cls(**values) for a subclass cls of DomainEvent, event_type among the arguments
ConstructInstance(cls, values) ==
    Construct([values EXCEPT !.event_type = set_event_type(cls, @)])

\* DomainEvent(...) as a producer constructs it; event_id stands for uuid4()
DomainEvent(id, type, agg, ver) ==
    Construct([event_id |-> id, event_type |-> type, aggregate_id |-> agg,
               aggregate_type |-> AggregateTypeOf(type), version |-> ver])

\* self.model_dump(): the dict of all fields of the event (priority and status
\* dumped as their enum values, which the constructor reads back)
model_dump(e) == e

mark_in_place(e) == e

\* DomainEvent.mark_as_published: a copy with status PUBLISHED, built by the
\* constructor from the dump of the event
mark_as_published(e) == Construct([model_dump(e) EXCEPT !.status = PUBLISHED])

\* DomainEvent.with_retry: a copy with retry_count incremented and status RETRYING
with_retry(e) ==
    Construct([model_dump(e) EXCEPT !.retry_count = @ + 1, !.status = RETRYING])

\* DomainEvent.mark_as_processed: a copy with status PROCESSED
mark_as_processed(e) == Construct([model_dump(e) EXCEPT !.status = PROCESSED])

\* DomainEvent.mark_as_failed: a copy with status FAILED
mark_as_failed(e) == Construct([model_dump(e) EXCEPT !.status = FAILED])

\* the copies the four lifecycle methods of an event give
Derived(e) == {mark_as_published(e), with_retry(e), mark_as_processed(e), mark_as_failed(e)}

\* None, as the value of a reference to a bus or a store; objects are numbered
\* from 1 in the order of their construction
NoObject == 0

\* the module as imported: both globals None, nothing constructed.  buses[b] is
\* the _event_store of bus b; stores counts the stores constructed
NoSingletons ==
    [event_bus_instance |-> NoObject, event_store_instance |-> NoObject,
     buses |-> <<>>, stores |-> 0]

\* no event: the value of a local that has not been assigned
NoEvent == [event_id |-> None]

VARIABLES
    handlers,      \* InMemoryEventBus._handlers: dict type name -> set of handlers
    store,         \* InMemoryEventStore._events
    lock,          \* InMemoryEventBus._lock: the task holding it, or NoTask
    retry_policy,  \* InMemoryEventBus._retry_policy
    running,       \* the task the event loop is executing, or NoTask
    task,          \* per task: the frame of the coroutine it runs
    singletons     \* the module globals _event_bus_instance and
                   \* _event_store_instance, and the buses and stores constructed

vars == <<handlers, store, lock, retry_policy, running, task, singletons>>

\* ------------------------------------------------------------ pure helpers
Range(f) == {f[x] : x \in DOMAIN f}

\* Python's sorted(set, key=priority.value): ascending by key; the sort is stable
\* over the set's iteration order, which is arbitrary, so ties may come in any order
SortedAscending(S) ==
    {f \in [1..Cardinality(S) -> S] :
        /\ Range(f) = S
        /\ \A a, b \in 1..Cardinality(S) : a < b => priority(f[a]) <= priority(f[b])}

\* sorted(self._handlers[event_type_name], key=lambda h: h.priority.value, reverse=True)
sorted_handlers_of(S) ==
    {f \in [1..Cardinality(S) -> S] :
        /\ Range(f) = S
        /\ \A a, b \in 1..Cardinality(S) : a < b => priority(f[a]) >= priority(f[b])}

should_retry_without_limit(policy, exception, attempt) ==
    IF policy.retry_on_exceptions = {} THEN TRUE
    ELSE exception \in policy.retry_on_exceptions

\* isinstance(exception, exc_type), for an exception of class `exception`
isinstance(exception, exc_type) ==
    \/ exception = exc_type
    \/ exception = "KeyError" /\ exc_type = "LookupError"

should_retry_same_class(policy, exception, attempt) ==
    IF attempt >= policy.max_retries THEN FALSE
    ELSE IF policy.retry_on_exceptions = {} THEN TRUE
    ELSE exception \in policy.retry_on_exceptions

\* RetryPolicy.should_retry
should_retry(policy, exception, attempt) ==
    IF attempt >= policy.max_retries THEN FALSE
    ELSE IF policy.retry_on_exceptions = {} THEN TRUE
    ELSE \E exc_type \in policy.retry_on_exceptions : isinstance(exception, exc_type)

\* b ** e for a natural exponent
RECURSIVE Pow(_, _)
Pow(b, e) ==
    IF e = 0 THEN 1
    ELSE LET h == Pow(b, e \div 2)
         IN IF e % 2 = 0 THEN h * h ELSE h * h * b

\* Delays and backoff factors are exact fractions <<numerator, denominator>>
\* (of seconds); the values used are exact as floats too
Frac(n) == <<n, 1>>
\* x <= y for fractions with positive denominators
FracLe(x, y) == x[1] * y[2] <= y[1] * x[2]
FracEq(x, y) == x[1] * y[2] = y[1] * x[2]

\* floor(log2(n)) for n >= 1
RECURSIVE Log2(_)
Log2(n) == IF n = 1 THEN 0 ELSE 1 + Log2(n \div 2)

\* x ** n raises OverflowError when the result is out of the range of a float,
\* that is when it is at least 2 ** FloatMaxExp; exact for x a power of two
pow_overflows(x, n) ==
    /\ x[2] = 1
    /\ x[1] > 1
    /\ Log2(x[1]) * n >= FloatMaxExp

\* RetryPolicy.get_delay raises what backoff_factor ** attempt raises
get_delay_raises(policy, attempt) == pow_overflows(policy.backoff_factor, attempt)

\* RetryPolicy.get_delay, when it returns
get_delay(policy, attempt) ==
    LET delay == <<policy.initial_delay[1] * Pow(policy.backoff_factor[1], attempt),
                   policy.initial_delay[2] * Pow(policy.backoff_factor[2], attempt)>>
    IN IF FracLe(delay, policy.max_delay) THEN delay ELSE policy.max_delay

CatchesNothing(x) == FALSE

\* `except Exception` in publish: matches every subclass of Exception
CatchesException(x) == x \in ExcTypes

\* default of the since_version parameter of get_events_for_aggregate
DefaultSinceVersion == 0
\* default of the limit parameter of get_events_by_type
DefaultLimit == 100

prepended(events, event) == <<event>> \o events

replaced_by(events, event) == <<event>>

not_yet_appended(events, event) == events

\* InMemoryEventStore.append: self._events.append(event)
appended(events, event) == Append(events, event)

get_events_newer_than_next(events, aggregate_id, aggregate_type, since_version) ==
    SelectSeq(events, LAMBDA ev : /\ ev.aggregate_id = aggregate_id
                                  /\ ev.aggregate_type = aggregate_type
                                  /\ ev.version > since_version + 1)

\* An Optional[datetime] argument: <<>> is None, <<at>> the time at
Since(at) == <<at>>
NoSince == <<>>

first_events_by_type(events, event_type, since, limit) ==
    LET filtered_events ==
            SelectSeq(events, LAMBDA event :
                /\ event.event_type = event_type
                /\ (since = NoSince \/ event.occurred_on >= since[1]))
    IN IF limit > 0 /\ limit < Len(filtered_events)
       THEN SubSeq(filtered_events, 1, limit)
       ELSE filtered_events

\* InMemoryEventStore.get_events_by_type; filtered_events[-limit:] is the whole
\* list when limit is not less than its length
get_events_by_type(events, event_type, since, limit) ==
    LET filtered_events ==
            SelectSeq(events, LAMBDA event :
                /\ event.event_type = event_type
                /\ (since = NoSince \/ event.occurred_on >= since[1]))
    IN IF limit > 0
       THEN IF limit >= Len(filtered_events) THEN filtered_events
            ELSE SubSeq(filtered_events, Len(filtered_events) - limit + 1,
                        Len(filtered_events))
       ELSE filtered_events

get_events_by_causation_id(events, correlation_id) ==
    SelectSeq(events, LAMBDA event : event.causation_id = correlation_id)

\* InMemoryEventStore.get_events_by_correlation_id
get_events_by_correlation_id(events, correlation_id) ==
    SelectSeq(events, LAMBDA event : event.correlation_id = correlation_id)

get_events_of_aggregate_id(events, aggregate_id, aggregate_type, since_version) ==
    SelectSeq(events, LAMBDA ev : /\ ev.aggregate_id = aggregate_id
                                  /\ ev.version > since_version)

\* InMemoryEventStore.get_events_for_aggregate
get_events_for_aggregate(events, aggregate_id, aggregate_type, since_version) ==
    SelectSeq(events, LAMBDA ev : /\ ev.aggregate_id = aggregate_id
                                  /\ ev.aggregate_type = aggregate_type
                                  /\ ev.version > since_version)

\* ------------------------------------------------------------------- state
\* A coroutine frame before the task has called anything
IdleFrame ==
    [op |-> "none", pc |-> "idle", events |-> <<>>, k |-> 0,
     sorted_handlers |-> <<>>, i |-> 0, attempt |-> 0,
     last_exception |-> NoExc, exc |-> NoExc, outcome |-> "pending",
     \* published_event of publish: the copy every handler is handed
     published_event |-> NoEvent,
     \* observations of the run, read by the properties only
     \*   invoked: the handlers of the current publish call, in order of first call
     \*   calls: handle() calls made by the current retry wrapper
     \*   registered: the handlers found registered when the current dispatch began
     \*   failures: retry wrappers of the current dispatch that ended by raising
     \*   succeeded: the handlers whose handle() returned in the current publish call
     \*   batch_calls: publish_batch calls made by the task
     \*   block_raised: what the managed block of the task's transaction raised
     \* a direct call of a synchronous function or of a store query: its
     \* arguments and the value it returned
     args |-> <<>>, result |-> None,
     invoked |-> <<>>, calls |-> 0, registered |-> {}, failures |-> 0,
     succeeded |-> {},
     batch_calls |-> 0, block_raised |-> NoExc,
     \* the frames below this one on the task's stack: the frame of the
     \* publish call whose handler made the call of this frame, if a handler did
     outer |-> <<>>]

\* The frame of a task whose call has ended: the locals of the coroutines are
\* gone; what the caller has is its own list of events and the outcome of the
\* call (returned, or raised the exception in exc). A call made by a handler
\* ends in that handler: the task is back in the handle() of the frame below
EndedFrame(f, outcome) ==
    IF f.outer # <<>>
    THEN f.outer[1]
    ELSE [IdleFrame EXCEPT !.op = f.op, !.pc = "done", !.events = f.events,
                           !.outcome = outcome,
                           !.exc = IF outcome = "raised" THEN f.exc ELSE NoExc,
                           !.batch_calls = f.batch_calls,
                           !.block_raised = f.block_raised,
                           !.args = f.args]

\* max_retries of RetryPolicy()
DefaultMaxRetries == 3

\* RetryPolicy() with the allow-list empty; max_retries as the bus is configured
Init ==
    /\ handlers = [n \in {} |-> {}]
    /\ store = << >>
    /\ lock = NoTask
    /\ retry_policy \in [max_retries : 0..MaxRetriesBound, retry_on_exceptions : {{}}]
    /\ running = NoTask
    /\ task = [t \in Tasks |-> IdleFrame]
    /\ singletons = NoSingletons

LastFirstEvent(t) == task[t].events[Len(task[t].events) - task[t].k + 1]

\* the event the task's publish call is working on: the k-th of its list
CurrentEvent(t) == task[t].events[task[t].k]
\* the handler the task's retry wrapper is working on
CurrentHandler(t) == task[t].sorted_handlers[task[t].i]

\* one task's frame changes and nothing else of the program state does
Frame(t, f) == task' = [task EXCEPT ![t] = f]

\* ------------------------------------------------ subscribe / unsubscribe
\* the handlers publish finds for an event whose event_type is `name`: the set
\* under that key, or none when the key is absent
HandlersOf(reg, name) == IF name \in DOMAIN reg THEN reg[name] ELSE {}

subscribe_toggles(reg, name, h) ==
    [n \in DOMAIN reg \cup {name} \cup supported_events(h) |->
        IF n = name \/ n \in supported_events(h)
        THEN (IF h \in HandlersOf(reg, n) THEN reg[n] \ {h} ELSE HandlersOf(reg, n) \cup {h})
        ELSE reg[n]]

subscribed_under_type_only(reg, name, h) ==
    [n \in DOMAIN reg \cup {name} |->
        IF n = name THEN HandlersOf(reg, n) \cup {h} ELSE reg[n]]

\* self._handlers after subscribe(event_type, handler): the handler is added under
\* the type's name and under every name of handler.supported_events
subscribed(reg, name, h) ==
    [n \in DOMAIN reg \cup {name} \cup supported_events(h) |->
        IF n = name \/ n \in supported_events(h)
        THEN (IF n \in DOMAIN reg THEN reg[n] ELSE {}) \cup {h}
        ELSE reg[n]]

\* self._handlers after unsubscribe(event_type, handler)
unsubscribed(reg, name, h) ==
    [n \in DOMAIN reg |->
        IF n = name \/ n \in supported_events(h) THEN reg[n] \ {h} ELSE reg[n]]

\* InMemoryEventBus.subscribe: a synchronous call, made while no task is executing
Subscribe(name, h) ==
    /\ running = NoTask
    /\ handlers' = subscribed(handlers, name, h)
    /\ handlers' # handlers
    /\ UNCHANGED <<store, lock, retry_policy, running, task, singletons>>

\* InMemoryEventBus.unsubscribe
Unsubscribe(name, h) ==
    /\ running = NoTask
    /\ handlers' = unsubscribed(handlers, name, h)
    /\ handlers' # handlers
    /\ UNCHANGED <<store, lock, retry_policy, running, task, singletons>>

\* ------------------------------------------------------ starting a task
\* the events a producer may construct as the n-th event of task t
NewEvents(t, n) ==
    {DomainEvent(<<t, n>>, type, "a1", ver) :
        type \in EventTypes, ver \in {v + n - 1 : v \in Versions}}

\* the lists a caller may pass to publish_batch: the producer numbers the
\* events of one list consecutively, from a first version it chooses
Batches(t) ==
    UNION {{b \in [1..len -> UNION {NewEvents(t, n) : n \in 1..len}] :
                /\ \A n \in 1..len : b[n].event_id = <<t, n>>
                /\ \A n \in 2..len : b[n].version = b[n - 1].version + 1}
           : len \in 0..MaxBatch}

CallPublishUnderLock(t, e) ==
    /\ running = NoTask
    /\ task[t].pc = "idle"
    /\ running' = t
    /\ Frame(t, [task[t] EXCEPT !.op = "publish", !.pc = "acquire", !.events = <<e>>])
    /\ UNCHANGED <<handlers, store, lock, retry_policy, singletons>>

\* a task calls bus.publish(event)
CallPublish(t, e) ==
    /\ running = NoTask
    /\ task[t].pc = "idle"
    /\ running' = t
    /\ Frame(t, [task[t] EXCEPT !.op = "publish", !.pc = "publish",
                                !.events = <<e>>, !.k = 1])
    /\ UNCHANGED <<handlers, store, lock, retry_policy, singletons>>

\* a task calls bus.publish_batch(events)
CallPublishBatch(t, b) ==
    /\ running = NoTask
    /\ task[t].pc = "idle"
    /\ running' = t
    /\ Frame(t, [task[t] EXCEPT !.op = "publish_batch", !.pc = "acquire",
                                !.events = b, !.batch_calls = @ + 1])
    /\ UNCHANGED <<handlers, store, lock, retry_policy, singletons>>

\* --------------------------------------------------------- publish_batch
LockNeverHeld(t) == FALSE

\* asyncio.Lock.locked(), as the acquire() of task t tests it
Locked(t) == lock # NoTask

\* `async with self._lock` when the lock is free: taken without suspending;
\* an empty batch leaves the block at once
BatchAcquire(t) ==
    /\ running = t
    /\ task[t].pc = "acquire"
    /\ ~Locked(t)
    /\ lock' = t
    /\ Frame(t, [task[t] EXCEPT !.pc = "next_event"])
    /\ UNCHANGED <<handlers, store, retry_policy, running, singletons>>

\* `async with self._lock` when the lock is held: the task waits for it
BatchWait(t) ==
    /\ running = t
    /\ task[t].pc = "acquire"
    /\ Locked(t)
    /\ running' = NoTask
    /\ Frame(t, [task[t] EXCEPT !.pc = "waiting"])
    /\ UNCHANGED <<handlers, store, lock, retry_policy, singletons>>

\* a waiter is woken once the lock has been released and takes it
BatchWake(t) ==
    /\ running = NoTask
    /\ task[t].pc = "waiting"
    /\ ~Locked(t)
    /\ running' = t
    /\ lock' = t
    /\ Frame(t, [task[t] EXCEPT !.pc = "next_event"])
    /\ UNCHANGED <<handlers, store, retry_policy, singletons>>

\* `for event in events: await self.publish(event)`; after the last event the
\* lock is released and publish_batch returns
BatchNext(t) ==
    /\ running = t
    /\ task[t].pc = "next_event"
    /\ IF task[t].k < Len(task[t].events)
       THEN /\ Frame(t, [task[t] EXCEPT !.pc = "publish", !.k = @ + 1])
            /\ UNCHANGED <<lock, running>>
       ELSE /\ lock' = NoTask
            /\ running' = NoTask
            /\ Frame(t, EndedFrame(task[t], "returned"))
    /\ UNCHANGED <<handlers, store, retry_policy, singletons>>

\* ---------------------------------------------------------------- publish
\* `await self._event_store.append(event)`: InMemoryEventStore.append does not suspend
PublishAppend(t) ==
    /\ running = t
    /\ task[t].pc = "publish"
    /\ store' = appended(store, CurrentEvent(t))
    /\ Frame(t, [task[t] EXCEPT !.pc = "lookup", !.invoked = <<>>, !.succeeded = {},
                                !.published_event = NoEvent])
    /\ UNCHANGED <<handlers, lock, retry_policy, running, singletons>>

\* mark_as_published, the lookup of the event's type and the priority sort
PublishLookup(t) ==
    /\ running = t
    /\ task[t].pc = "lookup"
    /\ LET published == mark_as_published(CurrentEvent(t))
           name == CurrentEvent(t).event_type IN
       IF name \notin DOMAIN handlers
       THEN Frame(t, [task[t] EXCEPT !.pc = "return", !.sorted_handlers = <<>>, !.i = 0,
                                     !.registered = {}, !.failures = 0,
                                     !.published_event = published])
       ELSE \E sh \in sorted_handlers_of(handlers[name]) :
                Frame(t, [task[t] EXCEPT !.pc = "dispatch", !.sorted_handlers = sh, !.i = 1,
                                         !.registered = handlers[name], !.failures = 0,
                                         !.published_event = published])
    /\ UNCHANGED <<handlers, store, lock, retry_policy, running, singletons>>

\* where publish returns to when a loop over a list called it: the for loop of
\* publish_batch, or that of DefaultEventPublisher.publish_events
LoopOf(op) == IF op = "publish_events" THEN "next_publish_event" ELSE "next_event"

\* publish returns to its caller: the task itself, or the loop over a list
PublishReturn(t) ==
    /\ running = t
    /\ task[t].pc = "return"
    /\ IF task[t].op = "publish"
       THEN /\ running' = NoTask
            /\ Frame(t, EndedFrame(task[t], "returned"))
       ELSE /\ Frame(t, [task[t] EXCEPT !.pc = LoopOf(task[t].op),
                                        !.published_event = NoEvent])
            /\ UNCHANGED running
    /\ UNCHANGED <<handlers, store, lock, retry_policy, singletons>>

\* ---------------------------------------------------- _process_with_retry
\* The head of `while attempt <= max_retries:` reached with frame f: either
\* handler.handle(event) is called, and the task is suspended in it until the
\* handler returns or raises, or the loop is left
LoopHead(f) ==
    IF f.attempt <= retry_policy.max_retries
    THEN [f EXCEPT !.pc = "handling",
                   !.calls = @ + 1,
                   !.invoked = IF f.sorted_handlers[f.i] \in Range(@) THEN @
                               ELSE Append(@, f.sorted_handlers[f.i])]
    ELSE [f EXCEPT !.pc = "after_loop"]

\* the event loop is given up exactly when the frame is suspended in an await
Suspended(f) == f.pc \in {"handling", "sleeping", "waiting"}

\* `for handler in sorted_handlers:` the next handler enters _process_with_retry
\* (`attempt = 0; last_exception = None`), or the loop ends and publish returns
Dispatch(t) ==
    /\ running = t
    /\ task[t].pc = "dispatch"
    /\ IF task[t].i <= Len(task[t].sorted_handlers)
       THEN LET f == LoopHead([task[t] EXCEPT !.attempt = 0, !.last_exception = NoExc,
                                              !.calls = 0])
            IN /\ Frame(t, f)
               /\ running' = IF Suspended(f) THEN NoTask ELSE t
       ELSE /\ Frame(t, [task[t] EXCEPT !.pc = "return"])
            /\ UNCHANGED running
    /\ UNCHANGED <<handlers, store, lock, retry_policy, singletons>>

RetryAfterReturn(t) ==
    /\ running = NoTask
    /\ task[t].pc = "handling"
    /\ UNCHANGED running
    /\ Frame(t, [task[t] EXCEPT !.pc = "sleeping", !.attempt = @ + 1,
                                !.succeeded = @ \cup {CurrentHandler(t)}])
    /\ UNCHANGED <<handlers, store, lock, retry_policy, singletons>>

\* handler.handle(event) returns: `return  # Success, exit retry loop`
HandleReturn(t) ==
    /\ running = NoTask
    /\ task[t].pc = "handling"
    /\ running' = t
    /\ Frame(t, [task[t] EXCEPT !.pc = "dispatch", !.i = @ + 1,
                                !.succeeded = @ \cup {CurrentHandler(t)}])
    /\ UNCHANGED <<handlers, store, lock, retry_policy, singletons>>

\* handler.handle(event) raises: `last_exception = e; attempt += 1`, then
\* `if not should_retry(e, attempt): break`, else `await asyncio.sleep(delay)`
HandleRaise(t) ==
    /\ running = NoTask
    /\ task[t].pc = "handling"
    /\ LET x == raised_by(CurrentHandler(t))
           f == [task[t] EXCEPT !.last_exception = x, !.attempt = @ + 1] IN
       IF ~should_retry(retry_policy, f.last_exception, f.attempt)
       THEN /\ Frame(t, [f EXCEPT !.pc = "after_loop"])
            /\ running' = t
       ELSE /\ Frame(t, [f EXCEPT !.pc = "sleeping"])
            /\ UNCHANGED running
    /\ UNCHANGED <<handlers, store, lock, retry_policy, singletons>>

WakeIntoNextHandler(t) ==
    /\ running = NoTask
    /\ task[t].pc = "sleeping"
    /\ LET f == IF task[t].i < Len(task[t].sorted_handlers)
                THEN LoopHead([task[t] EXCEPT !.i = @ + 1, !.attempt = 0, !.calls = 0])
                ELSE LoopHead(task[t])
       IN /\ Frame(t, f)
          /\ running' = IF Suspended(f) THEN NoTask ELSE t
    /\ UNCHANGED <<handlers, store, lock, retry_policy, singletons>>

\* the backoff sleep ends and the loop goes round
Wake(t) ==
    /\ running = NoTask
    /\ task[t].pc = "sleeping"
    /\ LET f == LoopHead(task[t])
       IN /\ Frame(t, f)
          /\ running' = IF Suspended(f) THEN NoTask ELSE t
    /\ UNCHANGED <<handlers, store, lock, retry_policy, singletons>>

\* `if last_exception: raise last_exception` after the loop
AfterLoop(t) ==
    /\ running = t
    /\ task[t].pc = "after_loop"
    /\ IF task[t].last_exception # NoExc
       THEN Frame(t, [task[t] EXCEPT !.pc = "handler_error", !.failures = @ + 1,
                                     !.exc = task[t].last_exception])
       ELSE Frame(t, [task[t] EXCEPT !.pc = "dispatch", !.i = @ + 1])
    /\ UNCHANGED <<handlers, store, lock, retry_policy, running, singletons>>

AbortDispatch(f) == [f EXCEPT !.pc = "return", !.exc = NoExc]

SkipRestOfBatch(f) == [f EXCEPT !.pc = "return", !.i = Len(f.sorted_handlers) + 1,
                                !.k = Len(f.events), !.exc = NoExc]

\* the body of publish's except clause: the error is logged and the for loop
\* goes on with the next handler
ContinueDispatch(f) == [f EXCEPT !.pc = "dispatch", !.i = @ + 1, !.exc = NoExc]

\* the lock as an exception leaves it held
lock_kept(l, t) == l

\* `async with self._lock:` is left, normally or by an exception: __aexit__
\* releases the lock of the task that holds it
released(l, t) == IF l = t THEN NoTask ELSE l

\* publish's `except Exception as e:` around _process_with_retry: a caught
\* exception is logged and the loop goes on; one that is not caught leaves
\* publish (and publish_batch, whose `async with` releases the lock)
PublishExcept(t) ==
    /\ running = t
    /\ task[t].pc = "handler_error"
    /\ IF CatchesException(task[t].exc)
       THEN /\ Frame(t, ContinueDispatch(task[t]))
            /\ UNCHANGED <<lock, running>>
       ELSE /\ Frame(t, EndedFrame(task[t], "raised"))
            /\ lock' = released(lock, t)
            /\ running' = NoTask
    /\ UNCHANGED <<handlers, store, retry_policy, singletons>>

\* `await self._event_store.append(event)` raises x in a store that can fail:
\* the statement is outside publish's try, so x leaves publish, and
\* publish_batch through its `async with`
PublishAppendRaises(t, x) ==
    /\ running = t
    /\ task[t].pc = "publish"
    /\ Frame(t, EndedFrame([task[t] EXCEPT !.exc = x], "raised"))
    /\ lock' = released(lock, t)
    /\ running' = NoTask
    /\ UNCHANGED <<handlers, store, retry_policy, singletons>>

\* task.cancel() of a task suspended in the bus: CancelledError is raised at
\* its await (the handler, the backoff sleep or the lock's acquire); it is no
\* Exception, so neither the retry wrapper nor publish catches it
Cancel(t) ==
    /\ running = NoTask
    /\ Suspended(task[t])
    /\ Frame(t, EndedFrame([task[t] EXCEPT !.exc = "CancelledError"], "raised"))
    /\ lock' = released(lock, t)
    /\ UNCHANGED <<handlers, store, retry_policy, running, singletons>>

\* ---------------------------------------------------- transaction_context
\* `async with transaction_context() as events:` the block starts with an empty list
TxEnter(t) ==
    /\ running = NoTask
    /\ task[t].pc = "idle"
    /\ running' = t
    /\ Frame(t, [task[t] EXCEPT !.op = "transaction", !.pc = "block", !.events = <<>>])
    /\ UNCHANGED <<handlers, store, lock, retry_policy, singletons>>

\* the block appends an event to the yielded list
TxAppend(t, e) ==
    /\ running = t
    /\ task[t].pc = "block"
    /\ Len(task[t].events) < MaxBatch
    /\ Frame(t, [task[t] EXCEPT !.events = Append(@, e)])
    /\ UNCHANGED <<handlers, store, lock, retry_policy, running, singletons>>

\* the block awaits something of its own and other tasks run
TxSuspend(t) ==
    /\ running = t
    /\ task[t].pc = "block"
    /\ running' = NoTask
    /\ UNCHANGED <<handlers, store, lock, retry_policy, task, singletons>>

TxResume(t) ==
    /\ running = NoTask
    /\ task[t].pc = "block"
    /\ running' = t
    /\ UNCHANGED <<handlers, store, lock, retry_policy, task, singletons>>

\* the block ends normally, or raises x, which is thrown into the generator at its yield
TxBlockEnds(t, x) ==
    /\ running = t
    /\ task[t].pc = "block"
    /\ Frame(t, [task[t] EXCEPT !.pc = "tx_exit", !.exc = x, !.block_raised = x])
    /\ UNCHANGED <<handlers, store, lock, retry_policy, running, singletons>>

AnyExit(x) == TRUE

\* control reaches the statements after `yield events` only when nothing was raised
NormalExit(x) == x = NoExc

\* after the yield: publish_batch(events) on the bus of get_event_bus(), or the
\* `except Exception` clause, which logs and re-raises
TxExit(t) ==
    /\ running = t
    /\ task[t].pc = "tx_exit"
    /\ IF NormalExit(task[t].exc)
       THEN /\ Frame(t, [task[t] EXCEPT !.pc = "acquire", !.batch_calls = @ + 1])
            /\ UNCHANGED running
       ELSE /\ Frame(t, EndedFrame(task[t], "raised"))
            /\ running' = NoTask
    /\ UNCHANGED <<handlers, store, lock, retry_policy, singletons>>

\* ------------------------------------------------------------ specification
\* calls into the registry, from code that runs while no task does
RegistryStep ==
    \/ \E n \in SubscribedTypes, h \in Handlers : Subscribe(n, h)
    \/ \E n \in SubscribedTypes, h \in Handlers : Unsubscribe(n, h)

\* one step of the bus code on behalf of task t
BusStep(t) ==
    \/ BatchAcquire(t)
    \/ BatchNext(t)
    \/ PublishAppend(t)
    \/ PublishLookup(t)
    \/ Dispatch(t)
    \/ PublishReturn(t)
    \/ HandleReturn(t)
    \/ HandleRaise(t)
    \/ Wake(t)
    \/ AfterLoop(t)
    \/ PublishExcept(t)

\* One caller: a task that publishes an event or a batch, while handlers are
\* subscribed and unsubscribed around it.
Caller == CHOOSE t \in Tasks : \A u \in Tasks : t <= u

Next ==
    \/ RegistryStep
    \/ \E e \in NewEvents(Caller, 1) : CallPublish(Caller, e)
    \/ \E b \in Batches(Caller) : CallPublishBatch(Caller, b)
    \/ BusStep(Caller)

Spec == Init /\ [][Next]_vars

\* A bus as constructed (default retry policy) to which one handler was subscribed
InitOneHandler ==
    /\ handlers = subscribed([n \in {} |-> {}], "ProjectCreated", "h2")
    /\ store = << >>
    /\ lock = NoTask
    /\ retry_policy = [max_retries |-> DefaultMaxRetries, retry_on_exceptions |-> {}]
    /\ running = NoTask
    /\ task = [t \in Tasks |-> IdleFrame]
    /\ singletons = NoSingletons

\* A bus as constructed (default retry policy) to which two handlers were subscribed
InitConcurrent ==
    /\ handlers = subscribed(subscribed([n \in {} |-> {}], "ProjectCreated", "h1"),
                             "ProjectCreated", "h2")
    /\ store = << >>
    /\ lock = NoTask
    /\ retry_policy = [max_retries |-> DefaultMaxRetries, retry_on_exceptions |-> {}]
    /\ running = NoTask
    /\ task = [t \in Tasks |-> IdleFrame]
    /\ singletons = NoSingletons

\* the n-th event of task t in the concurrent runs: a ProjectCreated event
\* of version n
PlainEvent(t, n) == DomainEvent(<<t, n>>, "ProjectCreated", "a1", n)

\* the batches of the concurrent runs
PlainBatches(t) == {[n \in 1..len |-> PlainEvent(t, n)] : len \in 0..MaxBatch}

\* Concurrent callers: several tasks publish batches and run transactions on
\* the same bus
NextConcurrent ==
    \E t \in Tasks :
        \/ \E b \in PlainBatches(t) : CallPublishBatch(t, b)
        \/ BusStep(t)
        \/ BatchWait(t)
        \/ BatchWake(t)
        \/ TxEnter(t)
        \/ TxAppend(t, PlainEvent(t, Len(task[t].events) + 1))
        \/ TxSuspend(t)
        \/ TxResume(t)
        \/ \E x \in ExcTypes \cup {NoExc} : TxBlockEnds(t, x)
        \/ TxExit(t)

SpecConcurrent == InitOneHandler /\ [][NextConcurrent]_vars

\* A batch next to standalone publish calls: on the bus of the concurrent runs
\* one task calls publish_batch while every other task calls publish
NextPublishDuringBatch ==
    \/ \E b \in PlainBatches(Caller) : CallPublishBatch(Caller, b)
    \/ \E t \in Tasks \ {Caller} : CallPublish(t, PlainEvent(t, 1))
    \/ \E t \in Tasks : BusStep(t)

SpecPublishDuringBatch == InitConcurrent /\ [][NextPublishDuringBatch]_vars

\* The registry: a bus as constructed, whose callers subscribe and unsubscribe
\* handlers under every event class and publish single events
InitRegistry ==
    /\ handlers = [n \in {} |-> {}]
    /\ store = << >>
    /\ lock = NoTask
    /\ retry_policy = [max_retries |-> DefaultMaxRetries, retry_on_exceptions |-> {}]
    /\ running = NoTask
    /\ task = [t \in Tasks |-> IdleFrame]
    /\ singletons = NoSingletons

\* one step of publish and of the retry wrapper on behalf of task t
PublishStep(t) ==
    \/ PublishAppend(t)
    \/ PublishLookup(t)
    \/ Dispatch(t)
    \/ PublishReturn(t)
    \/ HandleReturn(t)
    \/ HandleRaise(t)
    \/ Wake(t)
    \/ AfterLoop(t)
    \/ PublishExcept(t)

\* the event of class `type` that task t publishes in the registry runs
TypedEvent(t, type) == DomainEvent(<<t, 1>>, type, "a1", 1)

NextRegistry ==
    \/ \E n \in EventTypes, h \in Handlers : Subscribe(n, h)
    \/ \E n \in EventTypes, h \in Handlers : Unsubscribe(n, h)
    \/ \E type \in EventTypes : CallPublish(Caller, TypedEvent(Caller, type))
    \/ PublishStep(Caller)

SpecRegistry == InitRegistry /\ [][NextRegistry]_vars

\* ------------------------------------------------------------- RetryPolicy
\* the frame of a task that called the function `op` with `args` and got `result`
Returned(op, args, result) ==
    [IdleFrame EXCEPT !.op = op, !.pc = "done", !.outcome = "returned",
                      !.args = args, !.result = result]

\* a task calls self._retry_policy.should_retry(exception, attempt)
CallShouldRetry(t, exception, attempt) ==
    /\ running = NoTask
    /\ task[t].pc = "idle"
    /\ Frame(t, Returned("should_retry", <<exception, attempt>>,
                         should_retry(retry_policy, exception, attempt)))
    /\ UNCHANGED <<handlers, store, lock, retry_policy, running, singletons>>

\* the frame of a task whose call of `op` with `args` raised `exception`
Raised(op, args, exception) ==
    [IdleFrame EXCEPT !.op = op, !.pc = "done", !.outcome = "raised",
                      !.args = args, !.exc = exception]

\* a task calls self._retry_policy.get_delay(attempt)
CallGetDelay(t, attempt) ==
    /\ running = NoTask
    /\ task[t].pc = "idle"
    /\ IF get_delay_raises(retry_policy, attempt)
       THEN Frame(t, Raised("get_delay", <<attempt>>, "OverflowError"))
       ELSE Frame(t, Returned("get_delay", <<attempt>>,
                              get_delay(retry_policy, attempt)))
    /\ UNCHANGED <<handlers, store, lock, retry_policy, running, singletons>>

\* the task is done with the value a call returned and is free for the next call
Again(t) ==
    /\ running = NoTask
    /\ task[t].pc = "done"
    /\ Frame(t, IdleFrame)
    /\ UNCHANGED <<handlers, store, lock, retry_policy, running, singletons>>

\* RetryPolicy(max_retries, backoff_factor, initial_delay, max_delay,
\* retry_on_exceptions) with arguments from small sets
RetryPolicies ==
    [max_retries : 0..MaxRetriesBound,
     backoff_factor : {Frac(1), Frac(2), Frac(4)},
     initial_delay : {Frac(1), <<1, 2>>},
     max_delay : {Frac(1), Frac(10), Frac(60)},
     retry_on_exceptions : SUBSET AllowTypes]

InitRetryPolicy ==
    /\ handlers = [n \in {} |-> {}]
    /\ store = << >>
    /\ lock = NoTask
    /\ retry_policy \in RetryPolicies
    /\ running = NoTask
    /\ task = [t \in Tasks |-> IdleFrame]
    /\ singletons = NoSingletons

NextRetryPolicy ==
    \/ \E x \in ExcTypes, a \in 0..MaxAttempt : CallShouldRetry(Caller, x, a)
    \/ \E a \in 0..MaxAttempt \cup {FloatMaxExp} : CallGetDelay(Caller, a)
    \/ Again(Caller)

SpecRetryPolicy == InitRetryPolicy /\ [][NextRetryPolicy]_vars

\* ------------------------------------------------------ InMemoryEventStore
\* InMemoryEventStore(): no events; the bus around it as constructed
InitStore ==
    /\ handlers = [n \in {} |-> {}]
    /\ store = << >>
    /\ lock = NoTask
    /\ retry_policy = [max_retries |-> DefaultMaxRetries, retry_on_exceptions |-> {}]
    /\ running = NoTask
    /\ task = [t \in Tasks |-> IdleFrame]
    /\ singletons = NoSingletons

\* a task awaits store.append(event); append does not suspend
StoreAppend(t, e) ==
    /\ running = NoTask
    /\ task[t].pc = "idle"
    /\ store' = appended(store, e)
    /\ UNCHANGED <<handlers, lock, retry_policy, running, task, singletons>>

\* a task awaits store.get_events_for_aggregate(aggregate_id, aggregate_type,
\* since_version); the query does not suspend
CallGetEventsForAggregate(t, aggregate_id, aggregate_type, since_version) ==
    /\ running = NoTask
    /\ task[t].pc = "idle"
    /\ Frame(t, Returned("get_events_for_aggregate",
                         <<aggregate_id, aggregate_type, since_version>>,
                         get_events_for_aggregate(store, aggregate_id, aggregate_type,
                                                  since_version)))
    /\ UNCHANGED <<handlers, store, lock, retry_policy, running, singletons>>

\* the events of either class a producer may construct next for a store that
\* holds n events: of either aggregate, at version 1 or 2
AggregateEvents(t, n) ==
    {DomainEvent(<<t, n + 1>>, type, agg, ver) :
        type \in EventTypes, agg \in AggregateIds, ver \in {1, 2}}

\* an empty store to which a task appends events and which it queries by aggregate
NextAggregateQuery ==
    \/ /\ Len(store) < MaxAggregateEvents
       /\ \E e \in AggregateEvents(Caller, Len(store)) : StoreAppend(Caller, e)
    \/ \E agg \in AggregateIds, type \in {AggregateTypeOf(n) : n \in EventTypes},
          since_version \in {DefaultSinceVersion, 1, 2} :
            CallGetEventsForAggregate(Caller, agg, type, since_version)
    \/ Again(Caller)

SpecAggregateQuery == InitStore /\ [][NextAggregateQuery]_vars

\* a task awaits store.get_events_by_type(event_type, since, limit)
CallGetEventsByType(t, event_type, since, limit) ==
    /\ running = NoTask
    /\ task[t].pc = "idle"
    /\ Frame(t, Returned("get_events_by_type", <<event_type, since, limit>>,
                         get_events_by_type(store, event_type, since, limit)))
    /\ UNCHANGED <<handlers, store, lock, retry_policy, running, singletons>>

\* the values of occurred_on: the time of construction, now or one tick later
Times == {Now, Now + 1}

\* the events of either class a producer may construct next for a store that
\* holds n events, at either time
TimedEvents(t, n) ==
    {Construct([event_id |-> <<t, n + 1>>, event_type |-> type, aggregate_id |-> "a1",
                aggregate_type |-> AggregateTypeOf(type), occurred_on |-> at]) :
        type \in EventTypes, at \in Times}

\* an empty store to which a task appends events and which it queries by type
NextTypeQuery ==
    \/ /\ Len(store) < MaxStored
       /\ \E e \in TimedEvents(Caller, Len(store)) : StoreAppend(Caller, e)
    \/ \E type \in EventTypes, since \in {NoSince} \cup {Since(at) : at \in Times},
          limit \in {-1, 0, 1, 2, DefaultLimit} :
            CallGetEventsByType(Caller, type, since, limit)
    \/ Again(Caller)

SpecTypeQuery == InitStore /\ [][NextTypeQuery]_vars

\* ------------------------------------------------------ correlation chains
\* the ids callers pass as causation_id and correlation_id
ChainIds == {"A", "B"}

\* the keyword arguments a producer may construct its next event with, for a
\* store that holds n events: causation_id and correlation_id each left out,
\* passed as None or passed as an id
ChainedValues(t, n) ==
    LET required == [event_id |-> <<t, n + 1>>, event_type |-> "ProjectCreated",
                     aggregate_id |-> "a1", aggregate_type |-> "Project"]
        optional == {[x \in {} |-> None]}
                    \cup [causation_id : ChainIds \cup {None}]
                    \cup [correlation_id : ChainIds \cup {None}]
                    \cup [causation_id : ChainIds \cup {None},
                          correlation_id : ChainIds \cup {None}]
    IN {required @@ given : given \in optional}

\* a task constructs DomainEvent(**values) and calls bus.publish with it
PublishConstructed(t, values) ==
    /\ running = NoTask
    /\ task[t].pc = "idle"
    /\ running' = t
    /\ Frame(t, [task[t] EXCEPT !.op = "publish", !.pc = "publish",
                                !.events = <<Construct(values)>>, !.k = 1,
                                !.args = <<values>>])
    /\ UNCHANGED <<handlers, store, lock, retry_policy, singletons>>

\* a task whose publish call has returned awaits
\* bus.event_store.get_events_by_correlation_id(correlation_id); the frame
\* keeps the event it published
CallGetEventsByCorrelationId(t, correlation_id) ==
    /\ running = NoTask
    /\ task[t].pc = "done"
    /\ task[t].op = "publish"
    /\ Frame(t, [Returned("get_events_by_correlation_id", <<correlation_id>>,
                          get_events_by_correlation_id(store, correlation_id))
                     EXCEPT !.events = task[t].events])
    /\ UNCHANGED <<handlers, store, lock, retry_policy, running, singletons>>

\* a bus with one handler on which a task publishes events it constructs with
\* and without causation_id and correlation_id, querying the store after each
NextCorrelation ==
    \/ /\ Len(store) < MaxPublished
       /\ \E values \in ChainedValues(Caller, Len(store)) :
              PublishConstructed(Caller, values)
    \/ PublishStep(Caller)
    \/ \E id \in ChainIds \cup {None} : CallGetEventsByCorrelationId(Caller, id)
    \/ Again(Caller)

SpecCorrelation == InitOneHandler /\ [][NextCorrelation]_vars

\* -------------------------------------------------------------- singletons
\* InMemoryEventStore(): a new store
new_store(s) == [s EXCEPT !.stores = @ + 1]

\* InMemoryEventBus(event_store): a new bus around the store given, or around
\* a new store when None is given (`event_store or InMemoryEventStore()`)
new_bus(s, event_store) ==
    IF event_store = NoObject
    THEN [new_store(s) EXCEPT !.buses = Append(@, s.stores + 1)]
    ELSE [s EXCEPT !.buses = Append(@, event_store)]

\* get_event_store(): the module state after the call; the call returns its
\* _event_store_instance
get_event_store(s) ==
    IF s.event_store_instance = NoObject
    THEN [new_store(s) EXCEPT !.event_store_instance = s.stores + 1]
    ELSE s

get_event_bus_anew(s) ==
    LET g == get_event_store(s)
    IN [new_bus(g, g.event_store_instance) EXCEPT
            !.event_bus_instance = Len(g.buses) + 1]

\* get_event_bus(): the module state after the call; the call returns its
\* _event_bus_instance
get_event_bus(s) ==
    IF s.event_bus_instance = NoObject
    THEN LET g == get_event_store(s)
         IN [new_bus(g, g.event_store_instance) EXCEPT
                 !.event_bus_instance = Len(g.buses) + 1]
    ELSE s

\* configure_event_bus(event_bus)
configure_event_bus(s, event_bus) == [s EXCEPT !.event_bus_instance = event_bus]

\* a task calls get_event_store()
CallGetEventStore(t) ==
    /\ running = NoTask
    /\ task[t].pc = "idle"
    /\ singletons' = get_event_store(singletons)
    /\ Frame(t, Returned("get_event_store", <<>>, singletons'.event_store_instance))
    /\ UNCHANGED <<handlers, store, lock, retry_policy, running>>

\* a task calls get_event_bus()
CallGetEventBus(t) ==
    /\ running = NoTask
    /\ task[t].pc = "idle"
    /\ singletons' = get_event_bus(singletons)
    /\ Frame(t, Returned("get_event_bus", <<>>, singletons'.event_bus_instance))
    /\ UNCHANGED <<handlers, store, lock, retry_policy, running>>

\* a task constructs InMemoryEventBus(), a bus with a store of its own
ConstructBus(t) ==
    /\ running = NoTask
    /\ task[t].pc = "idle"
    /\ singletons' = new_bus(singletons, NoObject)
    /\ Frame(t, Returned("InMemoryEventBus", <<>>, Len(singletons'.buses)))
    /\ UNCHANGED <<handlers, store, lock, retry_policy, running>>

\* a task calls configure_event_bus(event_bus) with a bus constructed earlier,
\* or with None
CallConfigureEventBus(t, event_bus) ==
    /\ running = NoTask
    /\ task[t].pc = "idle"
    /\ singletons' = configure_event_bus(singletons, event_bus)
    /\ Frame(t, Returned("configure_event_bus", <<event_bus>>, None))
    /\ UNCHANGED <<handlers, store, lock, retry_policy, running>>

\* the accessors called in any order by a task that also constructs buses of
\* its own and configures them
NextSingletons ==
    \/ CallGetEventStore(Caller)
    \/ /\ singletons.event_bus_instance # NoObject \/ Len(singletons.buses) < MaxBuses
       /\ CallGetEventBus(Caller)
    \/ /\ Len(singletons.buses) < MaxBuses
       /\ ConstructBus(Caller)
    \/ \E b \in {NoObject} \cup DOMAIN singletons.buses : CallConfigureEventBus(Caller, b)
    \/ Again(Caller)

SpecSingletons == InitStore /\ [][NextSingletons]_vars

\* ------------------------------------------- DefaultProjectDomainService
\* the event classes the project service publishes
ProjectClasses ==
    {"ProjectCreated", "ProjectStateChanged", "ProjectMemberRemoved", "ProjectMemberAdded"}

\* the event_type argument the project service constructs an event of class cls with
service_event_type(cls) ==
    CASE cls = "ProjectCreated"       -> "project.created"
      [] cls = "ProjectStateChanged"  -> "project.state_changed"
      [] cls = "ProjectMemberRemoved" -> "project.member_removed"
      [] cls = "ProjectMemberAdded"   -> "project.member_added"

\* the keyword arguments of an event of class cls: as the project service
\* passes them, or with event_type the class name, or with event_type empty
InstanceValues(t, n, cls) ==
    {[event_id |-> <<t, n + 1>>, event_type |-> type, aggregate_id |-> "a1",
      aggregate_type |-> "project"] : type \in {service_event_type(cls), cls, ""}}

\* a task constructs cls(**values) and hands it to bus.publish, as
\* DefaultEventPublisher.publish_event does with an event that has its id and time
PublishInstance(t, cls, values) ==
    /\ running = NoTask
    /\ task[t].pc = "idle"
    /\ running' = t
    /\ Frame(t, [task[t] EXCEPT !.op = "publish", !.pc = "publish",
                                !.events = <<ConstructInstance(cls, values)>>, !.k = 1,
                                !.args = <<cls, values>>])
    /\ UNCHANGED <<handlers, store, lock, retry_policy, singletons>>

\* a bus as constructed on which subscribe(cls, h2) was called for every class
\* the project service publishes, and subscribe(ProjectCreated, h1)
InitProjectService ==
    /\ handlers = subscribed(subscribed(subscribed(subscribed(subscribed(
                      [n \in {} |-> {}], "ProjectCreated", "h2"),
                      "ProjectStateChanged", "h2"), "ProjectMemberRemoved", "h2"),
                      "ProjectMemberAdded", "h2"), "ProjectCreated", "h1")
    /\ store = << >>
    /\ lock = NoTask
    /\ retry_policy = [max_retries |-> DefaultMaxRetries, retry_on_exceptions |-> {}]
    /\ running = NoTask
    /\ task = [t \in Tasks |-> IdleFrame]
    /\ singletons = NoSingletons

NextProjectService ==
    \/ /\ Len(store) < MaxPublished
       /\ \E cls \in ProjectClasses :
              \E values \in InstanceValues(Caller, Len(store), cls) :
                  PublishInstance(Caller, cls, values)
    \/ PublishStep(Caller)
    \/ Again(Caller)

SpecProjectService == InitProjectService /\ [][NextProjectService]_vars

\* --------------------------------------------------- DefaultEventPublisher
\* a task calls DefaultEventPublisher(bus).publish_events(events)
CallPublishEvents(t, events) ==
    /\ running = NoTask
    /\ task[t].pc = "idle"
    /\ running' = t
    /\ Frame(t, [task[t] EXCEPT !.op = "publish_events", !.pc = "next_publish_event",
                                !.events = events])
    /\ UNCHANGED <<handlers, store, lock, retry_policy, singletons>>

\* `for event in events: await self.publish_event(event)`: publish_event leaves
\* an event that has its event_id and occurred_on as it is and awaits
\* self._event_bus.publish(event); after the last event publish_events returns
PublishEventsNext(t) ==
    /\ running = t
    /\ task[t].pc = "next_publish_event"
    /\ IF task[t].k < Len(task[t].events)
       THEN /\ Frame(t, [task[t] EXCEPT !.pc = "publish", !.k = @ + 1])
            /\ UNCHANGED running
       ELSE /\ running' = NoTask
            /\ Frame(t, EndedFrame(task[t], "returned"))
    /\ UNCHANGED <<handlers, store, lock, retry_policy, singletons>>

\* one task hands a list of events to the bus through publish_events of a
\* publisher, or calls publish_batch with one event as every other task does
NextEventPublisher ==
    \/ \E b \in PlainBatches(Caller) : CallPublishEvents(Caller, b)
    \/ PublishEventsNext(Caller)
    \/ \E t \in Tasks : CallPublishBatch(t, <<PlainEvent(t, 1)>>)
    \/ \E t \in Tasks : BatchWait(t) \/ BatchWake(t)
    \/ \E t \in Tasks : BusStep(t)

SpecEventPublisher == InitOneHandler /\ [][NextEventPublisher]_vars

\* A store that can fail and callers that can be cancelled: tasks publish
\* batches on one bus whose store's append may raise, and a suspended task may
\* be cancelled
StoreErrors == {"IOError"}

NextStoreFailure ==
    \E t \in Tasks :
        \/ \E b \in PlainBatches(t) : CallPublishBatch(t, b)
        \/ BusStep(t)
        \/ BatchWait(t)
        \/ BatchWake(t)
        \/ \E x \in StoreErrors : PublishAppendRaises(t, x)
        \/ Cancel(t)

SpecStoreFailure == InitOneHandler /\ [][NextStoreFailure]_vars

\* ----------------------------------------------------------- event_sourced
\* the aggregate classes a module decorates with @event_sourced
AggregateClasses == {"Project", "User", "Workspace"}

\* functools.wraps(wrapped)(wrapper): update_wrapper copies the names and then
\* calls wrapper.__dict__.update(wrapped.__dict__); the __dict__ of a class is a
\* read-only mappingproxy without an update method, so a wrapper that is a
\* class makes the call raise AttributeError
wraps_raises(wrapper_kind) == IF wrapper_kind = "class" THEN "AttributeError" ELSE NoExc

\* event_sourced(aggregate_class): the class statement builds
\* EventSourcedAggregate, its decorator @wraps(aggregate_class) is applied to
\* it, and only then `return EventSourcedAggregate` is reached
event_sourced(aggregate_class) ==
    LET x == wraps_raises("class") IN
    IF x # NoExc
    THEN Raised("event_sourced", <<aggregate_class>>, x)
    ELSE Returned("event_sourced", <<aggregate_class>>, "EventSourcedAggregate")

\* a task decorates an aggregate class
CallEventSourced(t, aggregate_class) ==
    /\ running = NoTask
    /\ task[t].pc = "idle"
    /\ Frame(t, event_sourced(aggregate_class))
    /\ UNCHANGED <<handlers, store, lock, retry_policy, running, singletons>>

\* modules that decorate their aggregate classes, next to the accessors of
\* the store and the bus that from_history and commit_events go through
NextEventSourced ==
    \/ \E t \in Tasks, c \in AggregateClasses : CallEventSourced(t, c)
    \/ \E t \in Tasks : Again(t)
    \/ NextSingletons

SpecEventSourced == InitStore /\ [][NextEventSourced]_vars

\* ------------------------------------------------- handlers that publish
\* the number of frames below frame f on its task's stack
RECURSIVE Nesting(_)
Nesting(f) == IF f.outer = <<>> THEN 0 ELSE 1 + Nesting(f.outer[1])

\* the event a handler of task t publishes as a follow-up of the event it handles
FollowUp(t) == PlainEvent(t, Len(task[t].events) + Nesting(task[t]) + 1)

\* the handler that task t is suspended in calls `await bus.publish(e)` on
\* the bus that invoked it: the call runs in the same task, on top of the
\* frame of the publish call that awaits the handler
HandlerPublish(t, e) ==
    /\ running = NoTask
    /\ task[t].pc = "handling"
    /\ Nesting(task[t]) < MaxNesting
    /\ running' = t
    /\ Frame(t, [IdleFrame EXCEPT !.op = "publish", !.pc = "publish",
                                  !.events = <<e>>, !.k = 1,
                                  !.outer = <<task[t]>>])
    /\ UNCHANGED <<handlers, store, lock, retry_policy, singletons>>

\* the handler that task t is suspended in calls `await bus.publish_batch(b)`
\* on the bus that invoked it
HandlerPublishBatch(t, b) ==
    /\ running = NoTask
    /\ task[t].pc = "handling"
    /\ Nesting(task[t]) < MaxNesting
    /\ running' = t
    /\ Frame(t, [IdleFrame EXCEPT !.op = "publish_batch", !.pc = "acquire",
                                  !.events = b, !.batch_calls = 1,
                                  !.outer = <<task[t]>>])
    /\ UNCHANGED <<handlers, store, lock, retry_policy, singletons>>

\* A caller publishes an event or a batch on the bus of the concurrent runs,
\* and the handlers publish follow-up events on the same bus while the store
\* holds fewer than MaxPublished events
NextReentrant ==
    \/ CallPublish(Caller, PlainEvent(Caller, 1))
    \/ \E t \in Tasks : \E b \in PlainBatches(t) : CallPublishBatch(t, b)
    \/ \E t \in Tasks : /\ Len(store) < MaxPublished
                        /\ HandlerPublish(t, FollowUp(t))
    \/ \E t \in Tasks : /\ Len(store) < MaxPublished
                        /\ HandlerPublishBatch(t, <<FollowUp(t)>>)
    \/ \E t \in Tasks : BusStep(t)
    \/ \E t \in Tasks : BatchWait(t)
    \/ \E t \in Tasks : BatchWake(t)

SpecReentrant == InitConcurrent /\ [][NextReentrant]_vars

\* the event loop runs every task that can run, a handler that is awaited
\* returns or raises, and a released lock wakes its waiter
FairSpecReentrant ==
    /\ SpecReentrant
    /\ \A t \in Tasks : WF_vars(BusStep(t) \/ BatchWait(t) \/ BatchWake(t))

\* ------------------------------------------------- the lifecycle of an event
\* the task constructs an event and holds it
Hold(t, e) ==
    /\ running = NoTask
    /\ task[t].pc = "idle"
    /\ Frame(t, [task[t] EXCEPT !.op = "lifecycle", !.pc = "holding", !.events = <<e>>])
    /\ UNCHANGED <<handlers, store, lock, retry_policy, running, singletons>>

\* the event the task holds: the last copy it derived
Held(t) == task[t].events[Len(task[t].events)]

\* the task calls one of with_retry and mark_as_* on the event it holds and
\* holds the copy; the frame keeps the event the copy was derived from
Derive(t, copy) ==
    /\ running = NoTask
    /\ task[t].pc = "holding"
    /\ Held(t).retry_count <= MaxRetryCount
    /\ Frame(t, [task[t] EXCEPT !.events = <<Held(t), copy>>])
    /\ UNCHANGED <<handlers, store, lock, retry_policy, running, singletons>>

\* the task calls bus.publish with the event it holds
PublishHeld(t) ==
    /\ running = NoTask
    /\ task[t].pc = "holding"
    /\ running' = t
    /\ Frame(t, [task[t] EXCEPT !.op = "publish", !.pc = "publish",
                                !.events = <<Held(t)>>, !.k = 1])
    /\ UNCHANGED <<handlers, store, lock, retry_policy, singletons>>

\* A caller takes an event through with_retry and mark_as_* in any order and
\* publishes one of the copies on a bus with one handler
NextLifecycle ==
    \/ Hold(Caller, TypedEvent(Caller, "ProjectCreated"))
    \/ /\ task[Caller].pc = "holding"
       /\ \E copy \in Derived(Held(Caller)) : Derive(Caller, copy)
    \/ PublishHeld(Caller)
    \/ PublishStep(Caller)

SpecLifecycle == InitOneHandler /\ [][NextLifecycle]_vars

\* ================================================================ properties
\* how often the sequence q holds the value x
Occurrences(q, x) == Cardinality({n \in DOMAIN q : q[n] = x})

\* the task called publish itself (not through publish_batch or a transaction)
CalledPublish(t) == task[t].op = "publish"

\* C1: publish(event) returns normally, whatever handlers are subscribed and
\* however their handle() calls fail: a finished publish call has returned,
\* and no exception is in flight out of it.
C1_PublishReturnsNormally ==
    \A t \in Tasks :
        CalledPublish(t) /\ task[t].pc = "done"
            => task[t].outcome = "returned" /\ task[t].exc = NoExc

\* C1 witness: publish returns although its last handler failed on every
\* attempt up to the limit of a retry policy that retries at least once
C1_Witness ==
    \E t \in Tasks :
        /\ CalledPublish(t) /\ task[t].pc = "return"
        /\ task[t].last_exception # NoExc
        /\ task[t].attempt = retry_policy.max_retries
        /\ retry_policy.max_retries >= 2

\* C2: with an empty allow-list, a handler whose handle() raises on every call
\* has been called exactly max_retries + 1 times when the bus gives up on it.
C2_AlwaysRaisingCalledMaxRetriesPlusOne ==
    \A t \in Tasks :
        /\ task[t].pc = "after_loop"
        /\ task[t].last_exception # NoExc
        /\ retry_policy.retry_on_exceptions = {}
        => task[t].calls = retry_policy.max_retries + 1

\* C3: when publish returns, every handler that was registered for the event's
\* type when dispatch began has been called at least once, whether or not the
\* handlers before it failed.
C3_EveryRegisteredHandlerCalled ==
    \A t \in Tasks :
        task[t].pc = "return" => task[t].registered \subseteq Range(task[t].invoked)

\* C3 witness: a handler is being called after an earlier handler of the same
\* publish call failed terminally
C3_Witness ==
    \E t \in Tasks :
        /\ task[t].pc = "handling"
        /\ task[t].failures >= 1
        /\ task[t].i >= 2

\* C4: handlers are called in descending priority: whenever a handler is being
\* called (first call or retry), no handler of lower priority has been called
\* yet in this publish call, and the handlers called so far are in descending
\* order of priority.
C4_DescendingPriority ==
    \A t \in Tasks :
        task[t].pc = "handling" =>
            /\ \A g \in Range(task[t].invoked) : priority(g) >= priority(CurrentHandler(t))
            /\ \A a, b \in DOMAIN task[t].invoked :
                  a < b => priority(task[t].invoked[a]) >= priority(task[t].invoked[b])

\* C4 witness: handlers of priority LOW, CRITICAL and NORMAL were called in the
\* order CRITICAL, NORMAL, LOW, one of the first two having failed terminally
C4_Witness ==
    \E t \in Tasks :
        /\ task[t].invoked = <<"h2", "h3", "h1">>
        /\ task[t].pc = "handling"
        /\ task[t].failures >= 1

\* the event is in the answer of get_events_for_aggregate for its own
\* aggregate, with the default since_version, exactly once
StoredOnceForAggregate(e) ==
    Occurrences(get_events_for_aggregate(store, e.aggregate_id, e.aggregate_type,
                                         DefaultSinceVersion), e) = 1

\* C5 as claimed: after publish returns, the event (whatever its version) is in
\* get_events_for_aggregate(e.aggregate_id, e.aggregate_type) exactly once.
C5_StoredOnceAnyVersion ==
    \A t \in Tasks :
        task[t].pc = "return" => StoredOnceForAggregate(CurrentEvent(t))

\* C5 amended: after publish returns, an event whose version is at least 1 is
\* in get_events_for_aggregate(e.aggregate_id, e.aggregate_type) exactly once,
\* whether handlers exist, succeed or fail.
C5_StoredOnceVersionAtLeastOne ==
    \A t \in Tasks :
        task[t].pc = "return" /\ CurrentEvent(t).version >= 1
            => StoredOnceForAggregate(CurrentEvent(t))

\* C5 witness: publish returns for an event of version 1 all of whose handlers failed
C5_Witness ==
    \E t \in Tasks :
        /\ task[t].pc = "return"
        /\ CurrentEvent(t).version = 1
        /\ task[t].failures >= 1
        /\ task[t].failures = Len(task[t].sorted_handlers)

\* the events of task t that are in the store, in store order
OwnStored(t) == SelectSeq(store, LAMBDA ev : ev.event_id[1] = t)

\* how many events of its list the task has appended to the store
AppendedCount(t) == IF task[t].pc = "publish" THEN task[t].k - 1 ELSE task[t].k

\* the managed block of the task's transaction raised
BlockRaised(t) ==
    /\ task[t].op = "transaction"
    /\ task[t].block_raised # NoExc

\* C6: when the managed block of a transaction_context raises, publish_batch
\* is never called, none of the accumulated events is stored or handed to a
\* handler, and the context ends by raising the block's exception.
C6_RaisingBlockPublishesNothing ==
    \A t \in Tasks :
        BlockRaised(t) =>
            /\ task[t].batch_calls = 0
            /\ OwnStored(t) = <<>>
            /\ task[t].invoked = <<>>
            /\ task[t].pc = "done" =>
                  task[t].outcome = "raised" /\ task[t].exc = task[t].block_raised

\* C6 witness: a transaction ended by raising after two events were accumulated
C6_Witness ==
    \E t \in Tasks :
        /\ BlockRaised(t) /\ task[t].pc = "done"
        /\ Len(task[t].events) = 2
        /\ DOMAIN handlers # {}

\* C7: while the managed block of a transaction_context runs, none of the
\* accumulated events is in the store or was handed to a handler; once the
\* context has been left normally, the store holds all of them in the order in
\* which they were appended to the list.
C7_TransactionPublishesOnExit ==
    \A t \in Tasks :
        task[t].op = "transaction" =>
            /\ task[t].pc \in {"block", "tx_exit"} =>
                  OwnStored(t) = <<>> /\ task[t].invoked = <<>>
            /\ task[t].pc = "done" /\ task[t].outcome = "returned" =>
                  OwnStored(t) = task[t].events

\* C7 witness: a transaction that accumulated two events was left normally,
\* with handlers registered for the type of the second
C7_Witness ==
    \E t \in Tasks :
        /\ task[t].op = "transaction" /\ task[t].pc = "done"
        /\ task[t].outcome = "returned"
        /\ Len(task[t].events) = 2
        /\ task[t].events[2].event_type \in DOMAIN handlers
        /\ handlers[task[t].events[2].event_type] # {}

\* C9: publish_batch stores the events in the order of the list, one at a
\* time: while event k of the list is being stored and dispatched, exactly the
\* events 1..k of the list are in the store, in list order, and all of them
\* are once publish_batch has returned.
C9_BatchInListOrder ==
    \A t \in Tasks :
        task[t].op \in {"publish_batch", "transaction"} =>
            IF task[t].pc = "done"
            THEN task[t].outcome = "returned" => OwnStored(t) = task[t].events
            ELSE OwnStored(t) = SubSeq(task[t].events, 1, AppendedCount(t))

\* C9 witness: the second event of a batch is in the store, after a handler of
\* the first event had been retried and had failed terminally
C9_Witness ==
    \E t \in Tasks :
        /\ task[t].op = "publish_batch"
        /\ task[t].pc = "lookup" /\ task[t].k = 2
        /\ task[t].failures >= 1 /\ task[t].attempt >= 2

\* every handler of the dispatch recorded in the frame failed terminally
AllHandlersFailed(t) ==
    /\ task[t].failures >= 1
    /\ task[t].failures = Len(task[t].sorted_handlers)

\* C10: publish_batch goes on after handler failures: when every handler of
\* event N has failed terminally the events 1..N are still in the store, and
\* when publish_batch ends it has returned normally with every event of the
\* list in the store.
C10_BatchNotAbortedByFailure ==
    \A t \in Tasks :
        task[t].op = "publish_batch" =>
            /\ AllHandlersFailed(t) /\ task[t].pc \in {"return", "next_event"} =>
                  OwnStored(t) = SubSeq(task[t].events, 1, task[t].k)
            /\ task[t].pc = "done" =>
                  task[t].outcome = "returned" /\ OwnStored(t) = task[t].events

\* C10 witness: event 2 of a batch has been appended after every handler of
\* event 1 failed terminally (at this point the frame still records the
\* dispatch of event 1)
C10_Witness ==
    \E t \in Tasks :
        /\ task[t].op = "publish_batch"
        /\ task[t].pc = "lookup" /\ task[t].k = 2
        /\ AllHandlersFailed(t)
        /\ OwnStored(t) = task[t].events

\* the task publishes a batch: by publish_batch or by leaving a transaction_context
PublishesBatch(t) == task[t].op \in {"publish_batch", "transaction"}

\* the batch of the task has stored an event and publish_batch has not ended
BatchUnderWay(t) == OwnStored(t) # <<>> /\ task[t].pc # "done"

\* C8: two publish_batch calls never interleave: while one batch has stored an
\* event and has not ended, no other batch that stored an event is unfinished,
\* so all appends and handler calls of one batch come before or after those of
\* the other.
C8_BatchesDoNotInterleave ==
    \A t, u \in Tasks :
        t # u /\ PublishesBatch(t) /\ PublishesBatch(u)
            => ~(BatchUnderWay(t) /\ BatchUnderWay(u))

\* C8 witness: a batch waits for the lock while the other batch, which has
\* stored an event, is in a backoff sleep
C8_Witness ==
    \E t, u \in Tasks :
        /\ t # u
        /\ task[t].op = "publish_batch" /\ task[t].pc = "sleeping"
        /\ task[u].op = "publish_batch" /\ task[u].pc = "waiting"
        /\ Len(task[u].events) >= 1

\* the task is inside the for loop of publish over sorted_handlers
Dispatching(t) ==
    task[t].pc \in {"dispatch", "handling", "sleeping", "after_loop", "handler_error"}

\* C11: subscribe is idempotent: from every registry, a second subscribe(T, h)
\* leaves the registry as the first call left it, and in every dispatch each
\* handler found for the event has exactly one place in the list the for loop
\* walks, so it gets one retry-wrapped dispatch per published event.
C11_SubscribeIdempotent ==
    /\ \A n \in EventTypes, h \in Handlers :
          /\ subscribed(subscribed(handlers, n, h), n, h) = subscribed(handlers, n, h)
          /\ h \in HandlersOf(handlers, n) /\ supported_events(h) = {}
                => subscribed(handlers, n, h) = handlers
    /\ \A t \in Tasks :
          Dispatching(t) =>
              \A h \in task[t].registered : Occurrences(task[t].sorted_handlers, h) = 1

\* C11 witness: a handler subscribed under ProjectCreated, for which a further
\* subscribe call changes nothing, is being called for a ProjectCreated event
\* next to two other handlers
C11_Witness ==
    \E t \in Tasks :
        /\ task[t].pc = "handling"
        /\ CurrentEvent(t).event_type = "ProjectCreated"
        /\ CurrentHandler(t) = "h1"
        /\ Cardinality(task[t].registered) = 3
        /\ subscribed(handlers, "ProjectCreated", "h1") = handlers

\* the two registries hand the same handlers to publish for every event type
SameDispatch(reg1, reg2) ==
    \A m \in EventTypes : HandlersOf(reg1, m) = HandlersOf(reg2, m)

\* C12: unsubscribe(T, h) is a no-op when h is not subscribed under T: the
\* handlers dispatched for every event type are the same after the call as
\* before it, also for the types of h.supported_events under which h was
\* registered by other subscribe calls.
C12_UnsubscribeNotSubscribedIsNoOp ==
    \A n \in EventTypes, h \in Handlers :
        h \notin HandlersOf(handlers, n)
            => SameDispatch(unsubscribed(handlers, n, h), handlers)

\* C13: unsubscribe is the inverse of subscribe: from a registry in which h is
\* not registered under T, subscribe(T, h) followed by unsubscribe(T, h) gives
\* back, for every event type, the handlers dispatched before the subscribe.
C13_UnsubscribeInvertsSubscribe ==
    \A n \in EventTypes, h \in Handlers :
        h \notin HandlersOf(handlers, n)
            => SameDispatch(unsubscribed(subscribed(handlers, n, h), n, h), handlers)

\* C14: after subscribe(T, h), h is among the handlers dispatched for events
\* whose event_type is T's name or the name of a type in h.supported_events,
\* and the handlers of every other type are as before; publish hands an event
\* to exactly the handlers registered under its event_type when it looks them
\* up, and has called each of them, and no other, when it returns.
C14_SubscribedHandlerDispatched ==
    /\ \A n \in EventTypes, h \in Handlers, m \in EventTypes :
          HandlersOf(subscribed(handlers, n, h), m) =
              IF m = n \/ m \in supported_events(h)
              THEN HandlersOf(handlers, m) \cup {h}
              ELSE HandlersOf(handlers, m)
    /\ \A t \in Tasks :
          /\ task[t].pc = "dispatch" /\ task[t].i = 1 =>
                /\ task[t].registered = HandlersOf(handlers, CurrentEvent(t).event_type)
                /\ Range(task[t].sorted_handlers) = task[t].registered
          /\ task[t].pc = "return" =>
                /\ Range(task[t].invoked) = task[t].registered
                /\ task[t].registered = {} =>
                      HandlersOf(handlers, CurrentEvent(t).event_type) = {}

\* C14 witness: h3, which supports UserRegistered and is subscribed under
\* ProjectCreated together with h1, is being called for a UserRegistered event
\* for which no other handler is registered
C14_Witness ==
    \E t \in Tasks :
        /\ task[t].pc = "handling"
        /\ CurrentEvent(t).event_type = "UserRegistered"
        /\ CurrentHandler(t) = "h3"
        /\ task[t].registered = {"h3"}
        /\ {"h1", "h3"} \subseteq HandlersOf(handlers, "ProjectCreated")

\* C15: a handler's own retry_on_exceptions governs its retries: when the list
\* is not empty and handle() raised an exception whose type is not in it, the
\* bus gives up on the handler after that one call.
C15_HandlerAllowListGovernsRetries ==
    \A t \in Tasks :
        /\ task[t].pc = "after_loop"
        /\ task[t].last_exception # NoExc
        /\ handler_retry_on_exceptions(CurrentHandler(t)) # {}
        /\ task[t].last_exception \notin handler_retry_on_exceptions(CurrentHandler(t))
        => task[t].calls = 1

\* C16: once handle() has returned for a handler, that handler is not called
\* again in the same publish call, no backoff sleep follows and no failure is
\* recorded for it, however many of its earlier attempts failed: the handler
\* a retry wrapper is calling, sleeping for or giving up on has never returned,
\* and every handler the for loop is done with either returned or failed.
C16_SuccessEndsTheWrapper ==
    \A t \in Tasks :
        /\ task[t].pc \in {"handling", "sleeping", "after_loop", "handler_error"}
              => CurrentHandler(t) \notin task[t].succeeded
        /\ task[t].pc = "dispatch"
              => task[t].failures + Cardinality(task[t].succeeded) = task[t].i - 1
        /\ task[t].pc = "return"
              => task[t].failures + Cardinality(task[t].succeeded)
                     = Len(task[t].sorted_handlers)

\* C16 witness: a handler returned on its third call, after two failed
\* attempts and two backoff sleeps, and the for loop has moved on to the next
\* handler with no failure recorded
C16_Witness ==
    \E t \in Tasks :
        /\ task[t].pc = "dispatch" /\ task[t].i = 2
        /\ task[t].attempt = 2 /\ task[t].calls = 3
        /\ task[t].succeeded = {task[t].sorted_handlers[1]}
        /\ task[t].failures = 0
        /\ Len(task[t].sorted_handlers) >= 2

\* C17: with a retry policy whose max_retries is 0 a failing handler is called
\* exactly once for a published event: no task is ever in a backoff sleep, no
\* retry wrapper makes a second call, and the wrapper that gives up has made one.
C17_ZeroRetriesOneCall ==
    retry_policy.max_retries = 0 =>
        \A t \in Tasks :
            /\ task[t].pc # "sleeping"
            /\ task[t].calls <= 1
            /\ task[t].pc \in {"after_loop", "handler_error"} => task[t].calls = 1

\* C17 witness: under max_retries = 0 the second handler of a publish call has
\* failed and is given up on, after the first had failed as well
C17_Witness ==
    \E t \in Tasks :
        /\ retry_policy.max_retries = 0
        /\ task[t].pc = "after_loop" /\ task[t].last_exception # NoExc
        /\ task[t].i = 2 /\ task[t].failures = 1

\* the handlers of the current dispatch whose retry wrapper has ended, by a
\* return of handle() or by giving up
ResolvedCount(t) == task[t].failures + Cardinality(task[t].succeeded)

\* C18: within one publish call dispatch is strictly sequential: while a
\* handler's retry wrapper is under way (in handle(), in a backoff sleep or
\* about to give up), the handlers called so far are exactly those up to it in
\* sorted_handlers and every one before it has resolved; a handler's first
\* call comes only once all wrappers before it have resolved, whatever other
\* tasks do in the meantime.
C18_DispatchStrictlySequential ==
    \A t \in Tasks :
        /\ task[t].pc \in {"handling", "sleeping", "after_loop"} =>
              /\ task[t].invoked = SubSeq(task[t].sorted_handlers, 1, task[t].i)
              /\ ResolvedCount(t) = task[t].i - 1
        /\ task[t].pc = "handler_error" =>
              /\ task[t].invoked = SubSeq(task[t].sorted_handlers, 1, task[t].i)
              /\ ResolvedCount(t) = task[t].i
        /\ task[t].pc = "dispatch" =>
              /\ task[t].invoked = SubSeq(task[t].sorted_handlers, 1, task[t].i - 1)
              /\ ResolvedCount(t) = task[t].i - 1

\* C18 witness: a task is in the first call of its second handler, the first
\* handler having used up its retries and backoff sleeps, while another task,
\* which has called the same first handler meanwhile, is in a backoff sleep
C18_Witness ==
    \E t, u \in Tasks :
        /\ t # u
        /\ task[t].pc = "handling" /\ task[t].i = 2 /\ task[t].calls = 1
        /\ task[t].failures = 1
        /\ task[u].pc = "sleeping" /\ task[u].i = 1

\* C19: a standalone publish call never waits for the bus lock: a task that
\* called publish is never acquiring, waiting for or holding the lock, and it
\* stores its event in the step after the call whoever holds the lock, so the
\* event can land between two events of a batch that is under way.
C19_PublishNeverWaitsForLock ==
    \A t \in Tasks :
        CalledPublish(t) =>
            /\ task[t].pc \notin {"acquire", "waiting", "next_event"}
            /\ lock # t
            /\ task[t].pc = "publish" => running = t

\* C19 witness: while the batch task holds the lock and sleeps between two
\* attempts of a handler of its first event, another task's publish call has
\* stored its event after that first event and has been dispatched and
\* returned; the second event of the batch is still to come
C19_Witness ==
    \E t \in Tasks :
        /\ t # Caller
        /\ lock = Caller
        /\ task[Caller].pc = "sleeping" /\ task[Caller].k = 1
        /\ Len(task[Caller].events) = 2
        /\ CalledPublish(t) /\ task[t].pc = "done" /\ task[t].outcome = "returned"
        /\ Len(store) = 2
        /\ store[1] = task[Caller].events[1]
        /\ store[2] = task[t].events[1]

\* the sequence p is a prefix of the sequence q
IsPrefix(p, q) == Len(p) <= Len(q) /\ SubSeq(q, 1, Len(p)) = p

\* C20: the event store is append-only: in every step of publish,
\* publish_batch, a transaction, subscribe or unsubscribe, the store's sequence
\* before the step is a prefix of the sequence after it, so that the store at
\* an earlier time is a prefix of the store at any later time.
C20_StoreAppendOnly == [][IsPrefix(store, store')]_vars

\* C20 witness: both events of a batch are in the store in list order, each
\* still as it was constructed, after handlers were called and the batch ended
C20_Witness ==
    /\ Len(store) = 2
    /\ task[Caller].op = "publish_batch" /\ task[Caller].pc = "done"
    /\ store = task[Caller].events
    /\ \A n \in 1..2 : store[n].status = CREATED
    /\ HandlersOf(handlers, "ProjectCreated") # {}

\* the publish call of the task has stored its event and made the copy for
\* the handlers
HasPublishedCopy(t) == task[t].published_event # NoEvent

\* C21: publish leaves the stored event untouched: the event it appended to the
\* store is the event it was passed, with the status and every other field it
\* came with, while the copy handed to the handlers has status PUBLISHED, the
\* same event_id and otherwise the fields of the event passed.
C21_StoredEventUntouched ==
    \A t \in Tasks :
        HasPublishedCopy(t) =>
            /\ OwnStored(t)[AppendedCount(t)] = CurrentEvent(t)
            /\ task[t].published_event.status = PUBLISHED
            /\ task[t].published_event.event_id = CurrentEvent(t).event_id
            /\ [task[t].published_event EXCEPT !.status = CurrentEvent(t).status]
                   = CurrentEvent(t)

\* C21 witness: a handler is being called with the PUBLISHED copy of an event
\* that was passed to publish with status PROCESSED and retry_count 1, and the
\* store holds the event with that status
C21_Witness ==
    \E t \in Tasks :
        /\ task[t].pc = "handling"
        /\ CurrentEvent(t).status = PROCESSED /\ CurrentEvent(t).retry_count = 1
        /\ task[t].published_event.status = PUBLISHED
        /\ store[Len(store)].status = PROCESSED

\* the event objects the publish call of the task has constructed: the copy
\* made by mark_as_published is the only one
MadeByPublish(t) == {task[t].published_event}

\* C22: after the bus has dispatched an event to a handler the lifecycle
\* reaches a terminal marker: when publish returns, it has produced a copy with
\* status PROCESSED if a handler succeeded and a copy with status FAILED if a
\* handler failed terminally.
C22_TerminalMarkerProduced ==
    \A t \in Tasks :
        task[t].pc = "return" /\ HasPublishedCopy(t) =>
            /\ task[t].succeeded # {} =>
                  \E c \in MadeByPublish(t) : c.status = PROCESSED
            /\ task[t].failures >= 1 =>
                  \E c \in MadeByPublish(t) : c.status = FAILED

\* the place of a status in the lifecycle CREATED, PUBLISHED, PROCESSED
Stage(status) == CASE status = CREATED -> 0
                   [] status = PUBLISHED -> 1
                   [] status = PROCESSED -> 2

Lifecycle == {CREATED, PUBLISHED, PROCESSED}

\* C23: event status only moves forward: a copy derived from an event by
\* mark_as_published, with_retry, mark_as_processed or mark_as_failed, or made
\* by publish, never has a status earlier in the lifecycle CREATED, PUBLISHED,
\* PROCESSED than the event it was derived from.
C23_StatusMovesForward ==
    \A t \in Tasks :
        /\ task[t].op = "lifecycle" /\ Len(task[t].events) = 2
           /\ task[t].events[1].status \in Lifecycle
           /\ task[t].events[2].status \in Lifecycle
              => Stage(task[t].events[2].status) >= Stage(task[t].events[1].status)
        /\ HasPublishedCopy(t) /\ CurrentEvent(t).status \in Lifecycle
              => Stage(task[t].published_event.status) >= Stage(CurrentEvent(t).status)

\* C24: RETRYING recurs at most max_retries times: every event reached by
\* repeated with_retry calls has retry_count <= max_retries.
C24_RetryCountWithinMaxRetries ==
    \A t \in Tasks :
        \A n \in DOMAIN task[t].events :
            task[t].events[n].retry_count <= task[t].events[n].max_retries

\* ---------------------------------------------------------------- C25
\* the classes an exception of class x is an instance of
ClassesOf(x) == IF x = "KeyError" THEN {"KeyError", "LookupError"} ELSE {x}

DidCall(t, op) == task[t].op = op /\ task[t].pc = "done"

\* C25: should_retry(exception, attempt) is false whenever attempt >= max_retries;
\* otherwise it is true exactly when the allow-list is empty or the exception is
\* an instance of an allow-listed type.
C25_ShouldRetry ==
    \A t \in Tasks :
        DidCall(t, "should_retry") =>
            LET attempt == task[t].args[2]
                classes == ClassesOf(task[t].args[1])
                allowed == retry_policy.retry_on_exceptions
            IN /\ task[t].outcome = "returned"
               /\ attempt >= retry_policy.max_retries => task[t].result = FALSE
               /\ attempt < retry_policy.max_retries =>
                      task[t].result = (allowed = {} \/ classes \cap allowed # {})

\* a KeyError is retried by a policy that allow-lists only LookupError
C25_Witness ==
    \E t \in Tasks :
        /\ DidCall(t, "should_retry")
        /\ task[t].args[1] = "KeyError"
        /\ retry_policy.retry_on_exceptions = {"LookupError"}
        /\ task[t].args[2] < retry_policy.max_retries
        /\ task[t].result = TRUE
\* ---------------------------------------------------------------- C26
\* what get_delay(attempt) has to return: min(initial_delay *
\* backoff_factor^attempt, max_delay), never more than max_delay, not more
\* than for attempt + 1 when backoff_factor >= 1, and the two documented values
CappedBackoff(policy, attempt, delay) ==
    LET power == <<policy.initial_delay[1] * Pow(policy.backoff_factor[1], attempt),
                   policy.initial_delay[2] * Pow(policy.backoff_factor[2], attempt)>>
        documented == /\ policy.backoff_factor = Frac(2)
                      /\ policy.initial_delay = Frac(1)
                      /\ policy.max_delay = Frac(10)
    IN /\ FracLe(delay, power)
       /\ FracLe(delay, policy.max_delay)
       /\ FracEq(delay, power) \/ FracEq(delay, policy.max_delay)
       /\ FracLe(Frac(1), policy.backoff_factor) =>
              FracLe(delay, get_delay(policy, attempt + 1))
       /\ documented /\ attempt = 3 => FracEq(delay, Frac(8))
       /\ documented /\ attempt = 10 => FracEq(delay, Frac(10))

\* C26: get_delay(attempt) equals min(initial_delay * backoff_factor^attempt,
\* max_delay) for every attempt >= 0, so it never exceeds max_delay and, for
\* backoff_factor >= 1, is non-decreasing in attempt; with (backoff_factor=2,
\* initial_delay=1, max_delay=10) get_delay(3) = 8 and get_delay(10) = 10.
C26_GetDelayIsCappedBackoff ==
    \A t \in Tasks :
        DidCall(t, "get_delay") =>
            /\ task[t].outcome = "returned"
            /\ CappedBackoff(retry_policy, task[t].args[1], task[t].result)
\* ---------------------------------------------------------------- C27
\* the events of a list that satisfy Keep, in the order of the list
InOrder(events, Keep(_)) ==
    LET kept == {i \in 1..Len(events) : Keep(events[i])}
    IN [j \in 1..Cardinality(kept) |->
           events[CHOOSE i \in kept : Cardinality({m \in kept : m <= i}) = j]]

\* C27: get_events_for_aggregate(aggregate_id, aggregate_type, since_version)
\* returns exactly the stored events whose aggregate_id and aggregate_type both
\* match and whose version > since_version, in append order, and returns an
\* empty sequence (no error) when nothing matches.
C27_EventsForAggregate ==
    \A t \in Tasks :
        DidCall(t, "get_events_for_aggregate") =>
            LET Matches(ev) == /\ ev.aggregate_id = task[t].args[1]
                               /\ ev.aggregate_type = task[t].args[2]
                               /\ ev.version > task[t].args[3]
            IN /\ task[t].outcome = "returned"
               /\ task[t].result = InOrder(store, Matches)
               /\ (\A i \in 1..Len(store) : ~Matches(store[i])) => task[t].result = <<>>

\* the answer has two events and leaves out a stored event of the same
\* aggregate_id whose aggregate_type differs
C27_Witness ==
    \E t \in Tasks :
        /\ DidCall(t, "get_events_for_aggregate")
        /\ Len(task[t].result) = 2
        /\ \E i \in 1..Len(store) :
               /\ store[i].aggregate_id = task[t].args[1]
               /\ store[i].aggregate_type # task[t].args[2]
               /\ store[i].version > task[t].args[3]
\* ---------------------------------------------------------------- C28
\* C28: get_events_by_type(event_type, since, limit) returns, in append order,
\* the last `limit` of the stored events of that type with occurred_on >= since
\* when limit > 0, and all of them when limit is 0 (or negative); over 5 stored
\* events of type X, limit=2 returns exactly the 2 most recently appended.
C28_EventsByType ==
    \A t \in Tasks :
        DidCall(t, "get_events_by_type") =>
            LET event_type == task[t].args[1]
                since == task[t].args[2]
                limit == task[t].args[3]
                result == task[t].result
                Matches(ev) == /\ ev.event_type = event_type
                               /\ since # NoSince => ev.occurred_on >= since[1]
                all == InOrder(store, Matches)
                five == /\ Len(store) = 5
                        /\ \A i \in 1..5 : store[i].event_type = event_type
            IN /\ task[t].outcome = "returned"
               /\ limit <= 0 => result = all
               /\ limit > 0 =>
                      /\ Len(result) = IF limit < Len(all) THEN limit ELSE Len(all)
                      /\ \A j \in 1..Len(result) :
                             result[j] = all[Len(all) - Len(result) + j]
               /\ five /\ since = NoSince /\ limit = 2 => result = <<store[4], store[5]>>

\* five events of one type are stored and the query with limit=2 gave the two
\* appended last
C28_Witness ==
    \E t \in Tasks :
        /\ DidCall(t, "get_events_by_type")
        /\ Len(store) = 5
        /\ \A i \in 1..5 : store[i].event_type = task[t].args[1]
        /\ task[t].args[3] = 2
        /\ task[t].result = <<store[4], store[5]>>
\* ---------------------------------------------------------------- C29
\* the task published an event it constructed from keyword arguments
PublishedConstructed(t) == task[t].op = "publish" /\ task[t].args # <<>>

\* C29: an event constructed with causation_id = A and no correlation_id has
\* correlation_id = A, the copy dispatched by publish keeps that
\* correlation_id, and after publish get_events_by_correlation_id(A) returns
\* the event; an event constructed with an explicit correlation_id keeps it
\* whatever its causation_id.
C29_CorrelationChain ==
    \A t \in Tasks :
        /\ PublishedConstructed(t) =>
               LET values == task[t].args[1]
                   event == task[t].events[1]
               IN /\ ("causation_id" \in DOMAIN values
                          /\ values.causation_id \in ChainIds
                          /\ "correlation_id" \notin DOMAIN values)
                      => event.correlation_id = values.causation_id
                  /\ "correlation_id" \in DOMAIN values
                      => event.correlation_id = values.correlation_id
                  /\ task[t].published_event # NoEvent
                      => task[t].published_event.correlation_id = event.correlation_id
        /\ DidCall(t, "get_events_by_correlation_id") =>
               LET event == task[t].events[1]
                   SameChain(ev) == ev.correlation_id = task[t].args[1]
               IN /\ task[t].outcome = "returned"
                  /\ task[t].result = InOrder(store, SameChain)
                  /\ SameChain(event) => \E i \in 1..Len(task[t].result) :
                                             task[t].result[i] = event

\* an event constructed with causation_id "A" alone was published, its copy
\* was dispatched, and the query for "A" returned it
C29_Witness ==
    \E t \in Tasks :
        /\ DidCall(t, "get_events_by_correlation_id")
        /\ task[t].args[1] = "A"
        /\ task[t].events[1].causation_id = "A"
        /\ task[t].events[1].correlation_id = "A"
        /\ \E i \in 1..Len(task[t].result) : task[t].result[i] = task[t].events[1]
        /\ \E i \in 1..Len(store) : store[i].correlation_id # "A"
\* ---------------------------------------------------------------- C30
\* the step is a call of `op` by task t
Calls(t, op) == task[t].pc = "idle" /\ task'[t].pc = "done" /\ task'[t].op = op

\* C30: get_event_bus() constructs a bus on first access and returns that same
\* instance on every later call until configure_event_bus(b) is called, after
\* which every get_event_bus() call returns b; get_event_store() likewise
\* returns one and the same store instance on every call.
C30_SingletonLifecycle ==
    [][/\ \A t \in Tasks :
            /\ Calls(t, "get_event_bus") =>
                   /\ task'[t].result # NoObject
                   /\ task'[t].result = singletons'.event_bus_instance
                   /\ IF singletons.event_bus_instance = NoObject
                      THEN task'[t].result \notin DOMAIN singletons.buses
                      ELSE task'[t].result = singletons.event_bus_instance
            /\ (Calls(t, "configure_event_bus") /\ task'[t].args[1] # NoObject) =>
                   singletons'.event_bus_instance = task'[t].args[1]
            /\ Calls(t, "get_event_store") =>
                   /\ task'[t].result # NoObject
                   /\ task'[t].result = singletons'.event_store_instance
       /\ (/\ singletons.event_bus_instance # NoObject
           /\ \A t \in Tasks : ~Calls(t, "configure_event_bus"))
              => singletons'.event_bus_instance = singletons.event_bus_instance
       /\ singletons.event_store_instance # NoObject
              => singletons'.event_store_instance = singletons.event_store_instance
      ]_vars

\* get_event_bus() returned a bus the caller constructed and configured: one
\* whose store is not the singleton store
C30_Witness ==
    \E t \in Tasks :
        /\ DidCall(t, "get_event_bus")
        /\ singletons.event_store_instance # NoObject
        /\ singletons.buses[task[t].result] # singletons.event_store_instance
\* ---------------------------------------------------------------- C31
\* get_event_bus().event_store and get_event_store(), called now in this order
\* (either order gives the same pair: get_event_bus calls get_event_store
\* before it constructs)
StoreOfBus(s) == LET g == get_event_bus(s) IN g.buses[g.event_bus_instance]
SingletonStore(s) == get_event_store(get_event_bus(s)).event_store_instance

\* C31: in every state reachable by get_event_bus, get_event_store and
\* configure_event_bus calls, get_event_store() is the store used by
\* get_event_bus() (get_event_bus().event_store), so an event published
\* through the configured bus is visible to queries through get_event_store().
C31_BusUsesSingletonStore ==
    StoreOfBus(singletons) = SingletonStore(singletons)
\* ---------------------------------------------------------------- C32
\* a handler has been invoked for the event the task's publish call works on
HandlerInvoked(t) ==
    /\ task[t].op \in {"publish", "publish_batch"}
    /\ task[t].pc \in {"handling", "sleeping", "after_loop", "handler_error"}

\* what a handler finds when it queries the store for the event it was handed
FoundInStore(event) ==
    \E i \in 1..Len(store) : store[i].event_id = event.event_id

\* C32: for every published event, the append to the event store happens
\* before the first handler invocation for that event, so any handler querying
\* the store while handling an event finds that event already stored.
C32_StoredBeforeHandled ==
    \A t \in Tasks :
        HandlerInvoked(t) =>
            /\ FoundInStore(task[t].published_event)
            /\ \E i \in 1..Len(store) : store[i] = CurrentEvent(t)

\* the first handler of an event is inside its first handle() call
C32_Witness ==
    \E t \in Tasks :
        /\ task[t].pc = "handling"
        /\ task[t].i = 1
        /\ task[t].calls = 1
        /\ FoundInStore(task[t].published_event)
\* ---------------------------------------------------------------- C35
\* the step is the call of handler.handle(event) by the retry wrapper of task t
Invokes(t) == task[t].pc # "handling" /\ task'[t].pc = "handling"

\* C35: after unsubscribe(T, h) returns, h is never invoked again for an event
\* of type T, also not by a publish of a T event that is already in flight:
\* whenever a handler is invoked for an event, it is registered under the
\* event's type at that moment.
C35_UnsubscribedNeverInvoked ==
    [][\A t \in Tasks :
           Invokes(t) =>
               task'[t].sorted_handlers[task'[t].i]
                   \in HandlersOf(handlers, task'[t].events[task'[t].k].event_type)
      ]_vars
\* ---------------------------------------------------------------- C37
\* the task publishes an instance it constructed of a class
PublishesInstance(t) == task[t].op = "publish" /\ Len(task[t].args) = 2

\* C37: a handler subscribed with subscribe(E, h) for an event class E is
\* invoked for every published instance of E, also for the events the project
\* service constructs with event_type strings such as "project.created": when
\* publish returns, every handler subscribed for the class has been called.
C37_SubscribedToClassInvoked ==
    \A t \in Tasks :
        PublishesInstance(t) /\ task[t].pc = "return" =>
            \A h \in HandlersOf(handlers, task[t].args[1]) :
                \E j \in 1..Len(task[t].invoked) : task[t].invoked[j] = h
\* ---------------------------------------------------------------- C38
\* C38: publish_events(events) hands the events to the bus in list order and
\* as one uninterrupted group: the events of the list that are stored are a
\* prefix of the list, and no event of a concurrent publish_batch or
\* publish_events call is stored between two of them.
C38_PublishEventsUninterrupted ==
    \A t \in Tasks :
        task[t].op = "publish_events" =>
            /\ IsPrefix(OwnStored(t), task[t].events)
            /\ \A i, j \in 1..Len(store) :
                   (i < j /\ store[i].event_id[1] = t /\ store[j].event_id[1] = t)
                       => \A m \in i..j : store[m].event_id[1] = t

\* ---------------------------------------------------------------------------
\* publish_batch is in progress in task t: the task is past the call and the
\* call has not ended
BatchActive(t) ==
    /\ PublishesBatch(t)
    /\ task[t].pc \notin {"idle", "done", "block", "tx_exit"}

\* C39: the bus lock is held only while a publish_batch call is in progress:
\* whenever the lock is held, its holder is a task inside publish_batch, so in
\* every state where no publish_batch call is active the lock is free, also
\* after a call ended with an exception of the store's append or was cancelled.
C39_LockHeldOnlyDuringBatch ==
    /\ lock # NoTask => lock \in Tasks /\ BatchActive(lock)
    /\ (\A t \in Tasks : ~BatchActive(t)) => lock = NoTask

\* a batch ended by the store's exception and another by cancellation, each
\* after it had taken the lock, and the lock is free
C39_Witness ==
    /\ lock = NoTask
    /\ \A t \in Tasks : ~BatchActive(t)
    /\ \E t \in Tasks : /\ task[t].op = "publish_batch" /\ task[t].pc = "done"
                        /\ task[t].outcome = "raised" /\ task[t].exc \in StoreErrors
                        /\ task[t].events # <<>>
    /\ \E t \in Tasks : /\ task[t].op = "publish_batch" /\ task[t].pc = "done"
                        /\ task[t].outcome = "raised" /\ task[t].exc = "CancelledError"
                        /\ OwnStored(t) # <<>>

\* ---------------------------------------------------------------------------
\* C36: pending events of event_sourced aggregates are per instance: for two
\* instances A and B of a class decorated with event_sourced, the events
\* applied to A are published only by A.commit_events(). The instances are
\* those of the class event_sourced returns: every call of event_sourced on
\* an aggregate class returns the decorated class.
C36_DecoratedClassWithOwnPending ==
    \A t \in Tasks :
        task[t].op = "event_sourced" /\ task[t].pc = "done"
            => /\ task[t].outcome = "returned"
               /\ task[t].result = "EventSourcedAggregate"

\* ---------------------------------------------------------------------------
\* the frame on top of task t's stack is a publish_batch call made by a
\* handler that was invoked for an event of a publish_batch call
ReentrantBatch(t) ==
    /\ task[t].outer # <<>>
    /\ task[t].op = "publish_batch"
    /\ task[t].outer[1].op = "publish_batch"

\* the call task t made has ended and nothing is left on the task's stack
CallEnded(t) == task[t].outer = <<>> /\ task[t].pc = "done"

\* C33: re-entrant batch publication completes: when a handler, while
\* handling an event delivered through publish_batch, itself calls
\* publish_batch on the same bus, the inner call eventually returns and the
\* outer publish_batch eventually returns.
C33_ReentrantBatchCompletes ==
    \A t \in Tasks : ReentrantBatch(t) ~> CallEnded(t)

\* ---------------------------------------------------------------------------
\* event e1 was appended to the store before event e2
AppendedBefore(e1, e2) ==
    \E m, n \in DOMAIN store : m < n /\ store[m] = e1 /\ store[n] = e2

\* C34: every handler observes events in store append order, also when
\* handlers publish follow-up events: when handler h is invoked for an event e2
\* that a handler of e1 published from inside its handle(), e1 was appended
\* before e2, and h is among the handlers of e1, then h was invoked for e1
\* before.
C34_HandledInAppendOrder ==
    \A t \in Tasks :
        task[t].outer # <<>> /\ task[t].pc = "handling"
            => LET o == task[t].outer[1]
                   h == CurrentHandler(t) IN
               (/\ AppendedBefore(o.events[o.k], CurrentEvent(t))
                /\ h \in Range(o.sorted_handlers))
                   => h \in Range(o.invoked)
====
